---- MODULE Spec2Model ----
(***************************************************************************)
(* Model of HanziCore (hanzi_core.py): the IDS lookup table, get_data,     *)
(* parse_ids, decompose, find_sister_characters, find_derived_characters.  *)
(*                                                                         *)
(* A Python str is a sequence of characters; a character is a TLA+ string  *)
(* naming it.  Names used for the non-ASCII characters of the source:      *)
(*   IDC_CHARS  ⿰ LR  ⿱ TB  ⿲ LCR  ⿳ TMB  ⿴ FULL  ⿵ SFA  ⿶ SFB  ⿷ SFL  *)
(*              ⿸ SUL  ⿹ SUR  ⿺ SLL  ⿻ OVL  〾 VAR                       *)
(*   tree glyphs  ｜ bar   └ corner   ├ tee   ─ dash                       *)
(*   達到最大深度  da2 dao zui da4 shen du4    或  huo                        *)
(*   獨體字  du2 ti zi                                                      *)
(*   未找到符合的字符  wei zhao dao fu he de zi fu    未知 wei zhi              *)
(*   搜尋失敗  sou xun shi bai    無法 wu2 fa    錯誤 cuo wu4                  *)
(*   table characters  木 mu  林 lin  森 sen  日 ri  月 yue  明 ming        *)
(***************************************************************************)
EXTENDS Integers, Sequences, FiniteSets, TLC

VARIABLES db, call, ret, stack, out, visited

vars == <<db, call, ret, stack, out, visited>>

(***************************************************************************)
(* Python str and list primitives                                          *)
(***************************************************************************)

\* s * n
RECURSIVE Repeat(_, _)
Repeat(s, n) == IF n <= 0 THEN <<>> ELSE s \o Repeat(s, n - 1)

\* s.startswith(p)
StartsWith(s, p) == Len(s) >= Len(p) /\ SubSeq(s, 1, Len(p)) = p

\* sub in s   (substring test of two str)
InStr(sub, s) ==
    \E i \in 1..(Len(s) + 1) :
        i + Len(sub) - 1 <= Len(s) /\ SubSeq(s, i, i + Len(sub) - 1) = sub

\* xs[1:]
PyTail(xs) == IF xs = <<>> THEN <<>> ELSE Tail(xs)

\* None stored where a str is expected: no string, and falsy like ''
NoneValue == <<"None">>

\* truthiness, had None been a non-empty str
TruthyOfStr(s) == s # <<>>

\* truthiness of an Optional[str]: '' and None are falsy
Truthy(s) == s # <<>> /\ s # NoneValue

\* str.isspace() of one character, as str.strip() and the regex class \S see it
IsSpace(ch) == ch \in {" ", "\t"}

\* s.strip()
RECURSIVE LStrip(_)
LStrip(s) == IF s # <<>> /\ IsSpace(s[1]) THEN LStrip(Tail(s)) ELSE s
RECURSIVE RStrip(_)
RStrip(s) ==
    IF s # <<>> /\ IsSpace(s[Len(s)]) THEN RStrip(SubSeq(s, 1, Len(s) - 1)) ELSE s
Strip(s) == RStrip(LStrip(s))

\* ''.join(list of str)
RECURSIVE Join(_)
Join(xs) == IF xs = <<>> THEN <<>> ELSE xs[1] \o Join(Tail(xs))

\* set(xs)
ToSet(xs) == {xs[i] : i \in 1..Len(xs)}

(***************************************************************************)
(* Module constants of hanzi_core.py                                       *)
(***************************************************************************)

IDC_CHARS ==
    <<"LR", "TB", "LCR", "TMB", "FULL", "SFA", "SFB", "SFL", "SUL", "SUR",
      "SLL", "OVL", "VAR">>

\* "｜   "
INDENT == <<"bar", " ", " ", " ">>
\* "└─ "
LAST_BRANCH == <<"corner", "dash", " ">>
\* "├─ "
MID_BRANCH == <<"tee", "dash", " ">>
\* " (達到最大深度)"
MAX_DEPTH_SUFFIX == <<" ", "(", "da2", "dao", "zui", "da4", "shen", "du4", ")">>
\* "或"
OR_MARK == <<"huo">>

(***************************************************************************)
(* The table: self.db, a dict in insertion order, as a sequence of records *)
(***************************************************************************)

\* char in self.db
In_db(c) == \E i \in 1..Len(db) : db[i].char = c

\* self.db[char]
db_get(c) == db[CHOOSE i \in 1..Len(db) : db[i].char = c]

(***************************************************************************)
(* parse_ids                                                               *)
(***************************************************************************)

\* the end of the match of &[^;]+; at position i of s, or 0 when it does not match
EntityEndNever(s, i) == 0
EntityEnd(s, i) ==
    IF s[i] = "&" /\ \E j \in (i + 2)..Len(s) : s[j] = ";"
    THEN LET j == CHOOSE j \in (i + 1)..Len(s) :
                      s[j] = ";" /\ \A m \in (i + 1)..(j - 1) : s[m] # ";"
         IN  IF j >= i + 2 THEN j ELSE 0
    ELSE 0

\* re.findall(r'&[^;]+;|[IDC]|\S', s) from position i on
RECURSIVE FindAllFrom(_, _)
FindAllFrom(s, i) ==
    IF i > Len(s) THEN <<>>
    ELSE IF EntityEnd(s, i) > 0
         THEN <<SubSeq(s, i, EntityEnd(s, i))>> \o FindAllFrom(s, EntityEnd(s, i) + 1)
         ELSE IF IsSpace(s[i])
              THEN FindAllFrom(s, i + 1)
              ELSE <<(<<s[i]>>)>> \o FindAllFrom(s, i + 1)

split_special_chars(s) == FindAllFrom(s, 1)

\* parse_ids(ids)[0] for a single str
parse_ids0(ids) == split_special_chars(ids)

(***************************************************************************)
(* decompose / _decompose_recursive                                        *)
(***************************************************************************)

\* if level >= max_depth
AtMaxDepthOff(level, max_depth) == level > max_depth
AtMaxDepth(level, max_depth) == level >= max_depth

\* [("｜   " * level + "└─ ", f"{char} (達到最大深度)")]
MaxDepthLeaf(char, level) ==
    << <<Repeat(INDENT, level) \o LAST_BRANCH, char \o MAX_DEPTH_SUFFIX>> >>

\* [("" if level == 0 else "｜   " * (level - 1) + "└─ ", char)]
Leaf(char, level) ==
    << <<IF level = 0 THEN <<>> ELSE Repeat(INDENT, level - 1) \o LAST_BRANCH, char>> >>

\* the ids_list of a selector that never falls back to the other variant
ids_list_of_no_fallback(data, variant_index) ==
    IF variant_index = -1
    THEN (IF Truthy(data.ids_1) THEN <<data.ids_1>> ELSE <<>>)
         \o (IF Truthy(data.ids_2) THEN <<data.ids_2>> ELSE <<>>)
    ELSE IF variant_index = 0
    THEN (IF Truthy(data.ids_1) THEN <<data.ids_1>> ELSE <<>>)
    ELSE IF variant_index = 1
    THEN (IF Truthy(data.ids_2) THEN <<data.ids_2>> ELSE <<>>)
    ELSE <<>>

\* the ids_list collected from a record for variant_index
ids_list_of_swapped(data, variant_index) ==
    IF variant_index = -1
    THEN (IF Truthy(data.ids_1) THEN <<data.ids_1>> ELSE <<>>)
         \o (IF Truthy(data.ids_2) THEN <<data.ids_2>> ELSE <<>>)
    ELSE IF variant_index = 1
    THEN (IF Truthy(data.ids_1) THEN <<data.ids_1>>
          ELSE IF Truthy(data.ids_2) THEN <<data.ids_2>> ELSE <<>>)
    ELSE IF variant_index = 0
    THEN (IF Truthy(data.ids_2) THEN <<data.ids_2>>
          ELSE IF Truthy(data.ids_1) THEN <<data.ids_1>> ELSE <<>>)
    ELSE <<>>
ids_list_of(data, variant_index) ==
    IF variant_index = -1
    THEN (IF Truthy(data.ids_1) THEN <<data.ids_1>> ELSE <<>>)
         \o (IF Truthy(data.ids_2) THEN <<data.ids_2>> ELSE <<>>)
    ELSE IF variant_index = 0
    THEN (IF Truthy(data.ids_1) THEN <<data.ids_1>>
          ELSE IF Truthy(data.ids_2) THEN <<data.ids_2>> ELSE <<>>)
    ELSE IF variant_index = 1
    THEN (IF Truthy(data.ids_2) THEN <<data.ids_2>>
          ELSE IF Truthy(data.ids_1) THEN <<data.ids_1>> ELSE <<>>)
    ELSE <<>>

\* all(idc not in ids for ids in ids_list for idc in IDC_CHARS)
NoIDC(ids_list) ==
    \A n \in 1..Len(ids_list) : \A m \in 1..Len(IDC_CHARS) :
        ~InStr(<<IDC_CHARS[m]>>, ids_list[n])

\* deep and not comp.startswith('&') and comp not in IDC_CHARS, and then
\* sub_data and (sub_data.get('ids_1') or sub_data.get('ids_2'))
Recurses(comp, deep) ==
    /\ deep
    /\ ~StartsWith(comp, <<"&">>)
    /\ ~InStr(comp, IDC_CHARS)
    /\ In_db(comp)
    /\ (Truthy(db_get(comp).ids_1) \/ Truthy(db_get(comp).ids_2))

\* result.extend(sub_result): the child's root marker kept
SpliceWhole(sub_result) == sub_result

\* result.extend(sub_result[1:])
Splice(sub_result) == PyTail(sub_result)

\* "｜   " * level + ("└─ " if is_last else "├─ ")
BranchPrefix(level, is_last) ==
    Repeat(INDENT, level) \o (IF is_last THEN LAST_BRANCH ELSE MID_BRANCH)

\* a separator after every variant, the last one included
SeparatorAfterEach(idx, n, level) == << <<Repeat(INDENT, level), OR_MARK>> >>

\* if idx < len(ids_list) - 1: result.append(("｜   " * level, "或"))   (idx is 0-based)
Separator(idx, n, level) ==
    IF idx < n - 1 THEN << <<Repeat(INDENT, level), OR_MARK>> >> ELSE <<>>

RECURSIVE decompose_recursive(_, _, _, _, _)
RECURSIVE expand_components(_, _, _, _, _, _)

\* the body of "for i, comp in enumerate(components)", from component i (1-based) on
expand_components(components, i, level, deep, max_depth, variant_index) ==
    IF i > Len(components) THEN <<>>
    ELSE LET comp == components[i]
             entry == << <<BranchPrefix(level, i = Len(components)), comp>> >>
         IN  (IF Recurses(comp, deep)
              THEN entry \o Splice(decompose_recursive(comp, level + 1, deep,
                                                       max_depth, variant_index))
              ELSE entry)
             \o expand_components(components, i + 1, level, deep, max_depth,
                                  variant_index)

\* the body of "for idx, ids in enumerate(ids_list)" for one variant (idx 0-based)
expand_variant(ids, idx, n, char, level, deep, max_depth, variant_index) ==
    IF ids = char
    THEN << <<Repeat(INDENT, level), char>> >> \o Separator(idx, n, level)
    ELSE << <<Repeat(INDENT, level), <<ids[1]>> >> >>
         \o expand_components(PyTail(parse_ids0(ids)), 1, level, deep, max_depth,
                              variant_index)
         \o Separator(idx, n, level)

RECURSIVE expand_variants(_, _, _, _, _, _, _)
expand_variants(ids_list, idx, char, level, deep, max_depth, variant_index) ==
    IF idx >= Len(ids_list) THEN <<>>
    ELSE expand_variant(ids_list[idx + 1], idx, Len(ids_list), char, level, deep,
                        max_depth, variant_index)
         \o expand_variants(ids_list, idx + 1, char, level, deep, max_depth,
                            variant_index)

decompose_recursive(char, level, deep, max_depth, variant_index) ==
    IF AtMaxDepth(level, max_depth) THEN MaxDepthLeaf(char, level)
    ELSE IF ~In_db(char) THEN Leaf(char, level)
    ELSE LET ids_list == ids_list_of(db_get(char), variant_index)
         IN  IF ids_list = <<>> THEN Leaf(char, level)
             ELSE IF NoIDC(ids_list) THEN Leaf(char, level)
             ELSE << <<(<<>>), char>> >>
                  \o expand_variants(ids_list, 0, char, level, deep, max_depth,
                                     variant_index)

decompose(char, max_depth, variant_index) ==
    decompose_recursive(char, 0, TRUE, max_depth, variant_index)

(***************************************************************************)
(* get_data                                                                *)
(***************************************************************************)

LOWER ==
    <<"a", "b", "c", "d", "e", "f", "g", "h", "i", "j", "k", "l", "m", "n", "o", "p",
      "q", "r", "s", "t", "u", "v", "w", "x", "y", "z">>
UPPER ==
    <<"A", "B", "C", "D", "E", "F", "G", "H", "I", "J", "K", "L", "M", "N", "O", "P",
      "Q", "R", "S", "T", "U", "V", "W", "X", "Y", "Z">>

\* s.upper()
UpperChar(ch) ==
    IF \E i \in 1..Len(LOWER) : LOWER[i] = ch
    THEN UPPER[CHOOSE i \in 1..Len(LOWER) : LOWER[i] = ch]
    ELSE ch
Upper(s) == [i \in 1..Len(s) |-> UpperChar(s[i])]

\* s.replace(old, '')
RECURSIVE RemoveAll(_, _)
RemoveAll(s, old) ==
    IF s = <<>> THEN <<>>
    ELSE IF StartsWith(s, old) THEN RemoveAll(SubSeq(s, Len(old) + 1, Len(s)), old)
    ELSE <<s[1]>> \o RemoveAll(Tail(s), old)

\* '0123456789ABCDEFabcdef'
HEX_DIGITS ==
    <<"0", "1", "2", "3", "4", "5", "6", "7", "8", "9", "A", "B", "C", "D", "E", "F",
      "a", "b", "c", "d", "e", "f">>

\* the test with the three prefixes taken in either case
is_unicode_format_any_case(s) ==
    \/ StartsWith(Upper(s), <<"U">>)
    \/ (Len(s) \in {4, 5} /\ \A i \in 1..Len(s) : InStr(<<s[i]>>, HEX_DIGITS))

is_unicode_format(s) ==
    \/ StartsWith(s, <<"U", "+">>)
    \/ StartsWith(s, <<"u", "n", "i">>)
    \/ StartsWith(s, <<"u">>)
    \/ (Len(s) \in {4, 5} /\ \A i \in 1..Len(s) : InStr(<<s[i]>>, HEX_DIGITS))

\* for char in char_or_code: if char.strip() and char in self.db: return ...
\* the position of the character returned, 0 when the loop ends without one
first_valid_char_last(s) ==
    LET ok == {i \in 1..Len(s) : Strip(<<s[i]>>) # <<>> /\ In_db(<<s[i]>>)}
    IN  IF ok = {} THEN 0 ELSE CHOOSE i \in ok : \A j \in ok : j <= i
first_valid_char(s) ==
    LET ok == {i \in 1..Len(s) : Strip(<<s[i]>>) # <<>> /\ In_db(<<s[i]>>)}
    IN  IF ok = {} THEN 0 ELSE CHOOSE i \in ok : \A j \in ok : i <= j

\* normalized_code after the prefix handling
normalized_code_plus_only(s) ==
    LET up == Upper(s)
    IN  IF StartsWith(up, <<"U", "+">>) \/ StartsWith(up, <<"U", "N", "I">>)
        THEN RemoveAll(RemoveAll(up, <<"U", "+">>), <<"U", "N", "I">>)
        ELSE up
normalized_code(s) ==
    LET up == Upper(s)
    IN  IF StartsWith(up, <<"U", "+">>) \/ StartsWith(up, <<"U", "N", "I">>)
        THEN RemoveAll(RemoveAll(up, <<"U", "+">>), <<"U", "N", "I">>)
        ELSE IF StartsWith(up, <<"U">>) THEN Tail(up)
        ELSE up

\* for char, data in self.db.items(): if data['unicode'].upper() == normalized_code
find_by_unicode(code) ==
    LET hit == {i \in 1..Len(db) : Upper(db[i].unicode) = code}
    IN  IF hit = {} THEN <<>>
        ELSE LET i == CHOOSE i \in hit : \A j \in hit : i <= j
             IN  << <<db[i].char, db[i]>> >>

\* the Unicode-notation step applies to every input that reaches it
unicode_step(s) == find_by_unicode(normalized_code(s))

\* a dict {char: record} is the sequence of its (key, value) pairs
get_data(char_or_code) ==
    IF Len(char_or_code) > 1 /\ ~is_unicode_format(char_or_code)
    THEN (IF first_valid_char(char_or_code) # 0
          THEN LET ch == <<char_or_code[first_valid_char(char_or_code)]>>
               IN  << <<ch, db_get(ch)>> >>
          ELSE <<>>)
    ELSE IF In_db(char_or_code)
    THEN << <<char_or_code, db_get(char_or_code)>> >>
    ELSE unicode_step(char_or_code)

(***************************************************************************)
(* find_sister_characters                                                  *)
(***************************************************************************)

\* a dict in insertion order is the sequence of its (key, value) pairs
DictHas(d, k) == \E i \in 1..Len(d) : d[i][1] = k

\* d.setdefault(k, []).append(x)
SetDefaultAppend(d, k, x) ==
    IF DictHas(d, k)
    THEN [i \in 1..Len(d) |-> IF d[i][1] = k THEN <<k, Append(d[i][2], x)>> ELSE d[i]]
    ELSE Append(d, <<k, <<x>>>>)

\* ord(ch) of the characters the tables use
CodePoint(ch) ==
    CASE ch = " " -> 32 [] ch = "&" -> 38 [] ch = ";" -> 59 [] ch = "e" -> 101
      [] ch = "ri" -> 26085 [] ch = "ming" -> 26126 [] ch = "yue" -> 26376
      [] ch = "mu" -> 26408 [] ch = "lin" -> 26519 [] ch = "sen" -> 26862
      [] ch = "VAR" -> 12350 [] ch = "LR" -> 12272 [] ch = "TB" -> 12273
      [] OTHER -> 0

\* a < b for two str
RECURSIVE StrLess(_, _)
StrLess(a, b) ==
    IF b = <<>> THEN FALSE
    ELSE IF a = <<>> THEN TRUE
    ELSE IF a[1] = b[1] THEN StrLess(Tail(a), Tail(b))
    ELSE CodePoint(a[1]) < CodePoint(b[1])

\* sorted(set)
RECURSIVE Sorted(_)
Sorted(S) ==
    IF S = {} THEN <<>>
    ELSE LET m == CHOOSE m \in S : \A x \in S \ {m} : StrLess(m, x)
         IN  <<m>> \o Sorted(S \ {m})

\* the labels of the result categories
\* "獨體字"
INDEPENDENT == "du2 ti zi"
\* "結構相同部件同位"
SAME_POSITION == "same structure, same-position component"
\* "結構部件相同"
SAME_STRUCTURE == "same structure, shared components"
\* "部件相同"
SHARED_ONLY == "shared components"
\* "拆法1結果", "拆法2結果"
VARIANT_1_RESULT == "variant 1 result"
VARIANT_2_RESULT == "variant 2 result"

\* charset: Optional[Set[str]]
NoCharset == [none |-> TRUE, chars |-> {}]
Charset(S) == [none |-> FALSE, chars |-> S]

IsIDCChar(ch) == InStr(<<ch>>, IDC_CHARS)
IsNotIDCToken(tok) == ~InStr(tok, IDC_CHARS)

\* ''.join([c for c in ids if c in IDC_CHARS])
structure_of(ids) == SelectSeq(ids, IsIDCChar)

\* [c for c in self.parse_ids(ids)[0] if c not in IDC_CHARS]
components_of(ids) == SelectSeq(parse_ids0(ids), IsNotIDCToken)

\* if len(target_components) <= 1
IsIndependentNone(target_components) == Len(target_components) < 1
IsIndependent(target_components) == Len(target_components) <= 1

\* the 1-based positions where zip(target_components, components) pairs equal items
SamePositionAll(target_components, components) ==
    LET n == IF Len(target_components) < Len(components)
             THEN Len(target_components) ELSE Len(components)
    IN  IF \A i \in 1..n : target_components[i] = components[i]
        THEN [i \in 1..n |-> i] ELSE <<>>
same_position_components(target_components, components) ==
    LET n == IF Len(target_components) < Len(components)
             THEN Len(target_components) ELSE Len(components)
        Eq(i) == target_components[i] = components[i]
    IN  SelectSeq([i \in 1..n |-> i], Eq)

NoMatch == [cat |-> "none", key |-> <<>>]

\* what one variant of a candidate files it under: the category and the group key
match_of(target_ids, ids) ==
    LET target_structure == structure_of(target_ids)
        target_components == components_of(target_ids)
        structure == structure_of(ids)
        components == components_of(ids)
        common == ToSet(target_components) \cap ToSet(components)
        same == same_position_components(target_components, components)
    IN  IF Len(components) = 1 THEN NoMatch
        ELSE IF structure = target_structure
        THEN (IF same # <<>>
              THEN [cat |-> SAME_POSITION,
                    key |-> Join([i \in 1..Len(same) |-> target_components[same[i]]])]
              ELSE IF common # {}
              THEN [cat |-> SAME_STRUCTURE, key |-> Join(Sorted(common))]
              ELSE NoMatch)
        ELSE IF common # {}
        THEN [cat |-> SHARED_ONLY, key |-> Join(Sorted(common))]
        ELSE NoMatch

\* the ids_variants of a record: its non-empty variants, ids_1 first
ids_variants(data) ==
    (IF Truthy(data.ids_1) THEN <<data.ids_1>> ELSE <<>>)
    \o (IF Truthy(data.ids_2) THEN <<data.ids_2>> ELSE <<>>)

\* the match of the first variant, the others not tried
first_match_ids_1_only(target_ids, variants) ==
    IF variants = <<>> THEN NoMatch ELSE match_of(target_ids, variants[1])

\* the match of the first variant that produces one (found_sister stops the loop)
RECURSIVE first_match(_, _)
first_match(target_ids, variants) ==
    IF variants = <<>> THEN NoMatch
    ELSE IF match_of(target_ids, variants[1]).cat # "none"
    THEN match_of(target_ids, variants[1])
    ELSE first_match(target_ids, Tail(variants))

\* sisters[cat].setdefault(key, []).append(c)
File(sisters, cat, key, c) ==
    [i \in 1..Len(sisters) |->
        IF sisters[i][1] = cat
        THEN <<cat, SetDefaultAppend(sisters[i][2], key, c)>>
        ELSE sisters[i]]

\* the variant loop without found_sister: the candidate filed by every variant that
\* produces a match
RECURSIVE file_every_variant(_, _, _, _)
file_every_variant(sisters, target_ids, variants, c) ==
    IF variants = <<>> THEN sisters
    ELSE LET m == match_of(target_ids, variants[1])
         IN  file_every_variant(IF m.cat = "none" THEN sisters
                                ELSE File(sisters, m.cat, m.key, c),
                                target_ids, Tail(variants), c)

\* the candidate loop with that variant loop
RECURSIVE sister_loop_every_variant(_, _, _, _, _)
sister_loop_every_variant(char, target_ids, charset, i, sisters) ==
    IF i > Len(db) THEN sisters
    ELSE LET c == db[i].char
         IN  IF c = char \/ (~charset.none /\ c \notin charset.chars)
             THEN sister_loop_every_variant(char, target_ids, charset, i + 1, sisters)
             ELSE sister_loop_every_variant(char, target_ids, charset, i + 1,
                      file_every_variant(sisters, target_ids, ids_variants(db[i]), c))

\* the candidate loop "for c, data in self.db.items()" from table position i on
RECURSIVE sister_loop(_, _, _, _, _)
sister_loop(char, target_ids, charset, i, sisters) ==
    IF i > Len(db) THEN sisters
    ELSE LET c == db[i].char
             m == first_match(target_ids, ids_variants(db[i]))
         IN  IF c = char \/ (~charset.none /\ c \notin charset.chars) \/ m.cat = "none"
             THEN sister_loop(char, target_ids, charset, i + 1, sisters)
             ELSE sister_loop(char, target_ids, charset, i + 1,
                              File(sisters, m.cat, m.key, c))

find_sister_by_ids(char, target_ids, charset) ==
    IF ~Truthy(target_ids) THEN <<>>
    ELSE IF IsIndependent(components_of(target_ids))
    THEN << <<INDEPENDENT, << <<char, <<char>>>> >> >> >>
    ELSE sister_loop(char, target_ids, charset, 1,
                     << <<SAME_POSITION, <<>>>>, <<SAME_STRUCTURE, <<>>>>,
                        <<SHARED_ONLY, <<>>>> >>)

\* the characters a result lists, and a result without the characters of seen
listed_in(result) ==
    UNION { UNION { ToSet(result[i][2][j][2]) : j \in 1..Len(result[i][2]) } :
              i \in 1..Len(result) }
drop_listed(groups, seen) ==
    LET NotSeen(x) == x \notin seen
        NonEmpty(g) == g[2] # <<>>
    IN  SelectSeq([j \in 1..Len(groups) |->
                      <<groups[j][1], SelectSeq(groups[j][2], NotSeen)>>], NonEmpty)

\* the merge that leaves out of the second result what the first one lists
merge_deduplicated(result_1, result_2) ==
    IF DictHas(result_1, INDEPENDENT)
    THEN (IF result_2 # <<>> /\ ~DictHas(result_2, INDEPENDENT) THEN result_2
          ELSE result_1)
    ELSE IF DictHas(result_2, INDEPENDENT) THEN result_1
    ELSE << <<VARIANT_1_RESULT, result_1>>,
            <<VARIANT_2_RESULT,
              [i \in 1..Len(result_2) |->
                  <<result_2[i][1], drop_listed(result_2[i][2], listed_in(result_1))>>]>> >>

\* the merge that returns the other result whenever it is not the singleton
merge_prefers_other(result_1, result_2) ==
    IF DictHas(result_1, INDEPENDENT)
    THEN (IF ~DictHas(result_2, INDEPENDENT) THEN result_2 ELSE result_1)
    ELSE IF DictHas(result_2, INDEPENDENT) THEN result_1
    ELSE << <<VARIANT_1_RESULT, result_1>>, <<VARIANT_2_RESULT, result_2>> >>

merge_sister_results(result_1, result_2) ==
    IF DictHas(result_1, INDEPENDENT)
    THEN (IF result_2 # <<>> /\ ~DictHas(result_2, INDEPENDENT) THEN result_2
          ELSE result_1)
    ELSE IF DictHas(result_2, INDEPENDENT) THEN result_1
    ELSE << <<VARIANT_1_RESULT, result_1>>, <<VARIANT_2_RESULT, result_2>> >>

\* target_ids for variant_index 0, 1 or anything else but -1
target_ids_of(data, variant_index) ==
    IF variant_index = 1
    THEN (IF Truthy(data.ids_2) THEN data.ids_2 ELSE data.ids_1)
    ELSE (IF Truthy(data.ids_1) THEN data.ids_1 ELSE data.ids_2)

find_sister_characters(char, charset, variant_index) ==
    IF ~In_db(char) THEN <<>>
    ELSE IF variant_index = -1
    THEN merge_sister_results(find_sister_by_ids(char, db_get(char).ids_1, charset),
                              find_sister_by_ids(char, db_get(char).ids_2, charset))
    ELSE find_sister_by_ids(char, target_ids_of(db_get(char), variant_index), charset)

(***************************************************************************)
(* find_derived_characters                                                 *)
(***************************************************************************)

MAX_DEPTH == 4

\* special_chars = set(IDC_CHARS)
special_chars == {<<IDC_CHARS[m]>> : m \in 1..Len(IDC_CHARS)}

\* process_component and its loop over sub_components (from entry i on); st holds
\* the two sets the closure updates: visited_components and decomposed_parts
RECURSIVE process_component(_, _, _)
RECURSIVE process_sub_components(_, _, _, _)

process_sub_components(sub_components, i, depth, st) ==
    IF i > Len(sub_components) THEN st
    ELSE LET comp == sub_components[i][2]
             st1 == [st EXCEPT !.parts = @ \cup {comp}]
         IN  IF comp \notin special_chars
             THEN process_sub_components(sub_components, i + 1, depth,
                      IF depth < MAX_DEPTH /\ comp \notin st1.visited
                      THEN process_component(comp, depth + 1, st1)
                      ELSE st1)
             ELSE process_sub_components(sub_components, i + 1, depth, st)

process_component(component, depth, st) ==
    IF depth >= MAX_DEPTH \/ component \in st.visited THEN st
    ELSE process_sub_components(decompose(component, 1, 0), 1, depth,
             [visited |-> st.visited \cup {component},
              parts |-> IF component # <<>> /\ component \notin special_chars
                        THEN st.parts \cup {component} ELSE st.parts])

\* decomposed_parts after process_component(char)
decomposed_parts(char) == process_component(char, 0, [visited |-> {}, parts |-> {}]).parts

\* the contents of a decomposition result that are in decomposed_parts and no IDC
MatchesIn(entries, parts) ==
    {entries[i][2] : i \in {i \in 1..Len(entries) :
                              entries[i][2] \in parts /\ entries[i][2] \notin special_chars}}

\* the matches among the entries of the candidate's own decomposition only
matching_components_direct_only(c, parts) == MatchesIn(decompose(c, 1, 0), parts)

\* matching_components of candidate c
matching_components(c, parts) ==
    UNION { UNION { IF e[2] \in parts /\ e[2] \notin special_chars
                    THEN {e[2]}
                    ELSE MatchesIn(decompose(e[2], 1, 0), parts) :
                    e \in ToSet(target_components) } :
            target_components \in {decompose(c, 1, 0)} }

\* the characters the candidate loop does not skip
is_candidate_any(c, char, charset) == charset.none \/ c \in charset.chars
\* the candidate loop without the filter of lines 432-433
is_candidate_unfiltered(c, char, charset) == c # char
is_candidate(c, char, charset) == c # char /\ (charset.none \/ c \in charset.chars)

\* derived_groups, a dict compared without regard to key order: a function from
\* the matched components to the candidates listed under them, in table order
derived_groups(char, charset, parts) ==
    LET keys == UNION { IF is_candidate(db[i].char, char, charset)
                        THEN matching_components(db[i].char, parts) ELSE {} :
                        i \in 1..Len(db) }
        listed(k) ==
            LET Under(r) == /\ is_candidate(r.char, char, charset)
                            /\ k \in matching_components(r.char, parts)
                hits == SelectSeq(db, Under)
            IN  [n \in 1..Len(hits) |-> hits[n].char]
    IN  [k \in keys |-> listed(k)]

find_derived_characters(char, charset) ==
    derived_groups(char, charset, decomposed_parts(char))

(***************************************************************************)
(* The text helpers: is_error_message, is_valid_character,                 *)
(* extract_character                                                       *)
(***************************************************************************)

\* "未找到符合的字符"
ERROR_NO_MATCH_FOUND == <<"wei", "zhao", "dao", "fu", "he", "de", "zi", "fu">>

\* "未知字符"
ERROR_UNKNOWN_CHAR == <<"wei", "zhi", "zi", "fu">>

\* "搜尋失敗"
ERROR_SEARCH_FAILED == <<"sou", "xun", "shi", "bai">>

\* error_indicators, in the order of the list
error_indicators ==
    << ERROR_NO_MATCH_FOUND,
       ERROR_UNKNOWN_CHAR,
       ERROR_SEARCH_FAILED,
       <<"wei", "zhao", "dao">>,
       <<"wu2", "fa">>,
       <<"cuo", "wu4">>,
       <<"(", "da2", "dao", "zui", "da4", "shen", "du4", ")">>,
       <<"da2", "dao", "zui", "da4", "shen", "du4">> >>

\* Optional[str]
None == [none |-> TRUE, value |-> <<>>]

Some(s) == [none |-> FALSE, value |-> s]

\* s.replace(old, new), old not empty: the occurrences of old left to right, not
\* overlapping
RECURSIVE Replace(_, _, _)
Replace(s, old, new) ==
    IF s = <<>> THEN <<>>
    ELSE IF StartsWith(s, old)
         THEN new \o Replace(SubSeq(s, Len(old) + 1, Len(s)), old, new)
         ELSE <<s[1]>> \o Replace(Tail(s), old, new)

\* s.split(): the maximal runs of non-whitespace characters
RECURSIVE SplitFrom(_, _, _)
SplitFrom(s, i, word) ==
    IF i > Len(s) THEN (IF word = <<>> THEN <<>> ELSE <<word>>)
    ELSE IF IsSpace(s[i])
         THEN (IF word = <<>> THEN <<>> ELSE <<word>>) \o SplitFrom(s, i + 1, <<>>)
         ELSE SplitFrom(s, i + 1, Append(word, s[i]))

Split(s) == SplitFrom(s, 1, <<>>)

\* is_error_message(text)
is_error_message_blank_only(text) == Strip(text) = <<>>
is_error_message(text) ==
    IF ~Truthy(text) \/ ~Truthy(Strip(text)) THEN TRUE
    ELSE \E n \in 1..Len(error_indicators) : InStr(error_indicators[n], text)

\* is_valid_character(char)
is_valid_character(char) ==
    IF ~Truthy(char) \/ ~Truthy(Strip(char)) THEN FALSE
    ELSE IF is_error_message(char) THEN FALSE
    ELSE LET stripped_char == Strip(char)
         IN  IF Len(stripped_char) > 1
             THEN StartsWith(stripped_char, <<"U", "+">>)
                  \/ StartsWith(stripped_char, <<"u", "n", "i">>)
                  \/ StartsWith(stripped_char, <<"u">>)
             ELSE TRUE

\* tree_symbols, in the order of the list
tree_symbols == << <<"bar">>, <<"tee", "dash">>, <<"corner", "dash">>, <<" ">> >>

\* for symbol in tree_symbols: cleaned = cleaned.replace(symbol, " ")
RECURSIVE clean_tree_symbols(_, _)
clean_tree_symbols(text, n) ==
    IF n > Len(tree_symbols) THEN text
    ELSE clean_tree_symbols(Replace(text, tree_symbols[n], <<" ">>), n + 1)

\* extract_character(text) from the tree-format step on
extract_from_tree(text) ==
    LET parts == Split(clean_tree_symbols(text, 1))
        stripped == Strip(text)
    IN  IF parts # <<>> /\ ~is_error_message(parts[Len(parts)]) THEN Some(parts[Len(parts)])
        ELSE IF Truthy(stripped) /\ ~is_error_message(stripped) THEN Some(stripped)
        ELSE None

\* extract_character(text)
extract_character_whole(text) ==
    IF ~Truthy(text) \/ ~Truthy(Strip(text)) THEN None ELSE Some(Strip(text))
extract_character(text) ==
    IF ~Truthy(text) \/ ~Truthy(Strip(text)) THEN None
    ELSE LET char == Strip(Replace(text, MAX_DEPTH_SUFFIX, <<>>))
         IN  IF InStr(MAX_DEPTH_SUFFIX, text) /\ Truthy(char) /\ ~is_error_message(char)
             THEN Some(char)
             ELSE IF is_error_message(text) THEN None
             ELSE extract_from_tree(text)

(***************************************************************************)
(* Reading a decomposition result                                          *)
(***************************************************************************)

\* number of indent units "｜   " in a prefix
IndentUnits(prefix) == Cardinality({i \in 1..Len(prefix) : prefix[i] = "bar"})

\* the prefix ends in a branch glyph
HasBranch(prefix) == \E i \in 1..Len(prefix) : prefix[i] \in {"corner", "tee"}

\* nesting depth of the tree node an entry belongs to: the root and its structure
\* line are depth 0, a branch entry under level L is a node of depth L + 1
EntryDepth(prefix) == IndentUnits(prefix) + (IF HasBranch(prefix) THEN 1 ELSE 0)

(***************************************************************************)
(* The queries as operations on the engine                                 *)
(***************************************************************************)

MaxK == 3

NoCall ==
    [op |-> "init", arg |-> <<>>, max_depth |-> 0, variant_index |-> 0,
     charset |-> NoCharset]

Selectors == {0, 1, -1}

\* the table universe of the decomposition queries
IdsD ==
    { <<>>,
      <<"mu">>,
      <<"LR", "mu", "lin">>,
      <<"TB", "lin", "ri">>,
      <<"LR", "&", "e", ";", "mu">>,
      <<"TB", "LR", "mu", "lin">> }

RecordsD(c, u) ==
    { [char |-> c, unicode |-> u, ids_1 |-> i1, ids_2 |-> i2] : i1 \in IdsD, i2 \in IdsD }

TablesD ==
    { <<a, b>> : a \in RecordsD(<<"mu">>, <<"6", "7", "2", "8">>),
                 b \in RecordsD(<<"lin">>, <<"6", "7", "9", "7">>) }

CharsD == { <<"mu">>, <<"lin">>, <<"sen">> }

Idle == stack = <<>> /\ out = <<>> /\ visited = {}

InitDecompose ==
    /\ db \in TablesD
    /\ call = NoCall
    /\ ret = <<>>
    /\ Idle

\* the caller takes the result of the last query; the engine is idle again
Return ==
    /\ call.op # "init"
    /\ stack = <<>>
    /\ call' = NoCall
    /\ ret' = <<>>
    /\ UNCHANGED <<db, stack, out, visited>>

Decompose ==
    \E c \in CharsD, k \in 0..MaxK, v \in Selectors :
        /\ call = NoCall
        /\ call' = [op |-> "decompose", arg |-> c, max_depth |-> k, variant_index |-> v,
                    charset |-> NoCharset]
        /\ ret' = decompose(c, k, v)
        /\ UNCHANGED <<db, stack, out, visited>>

NextDecompose == Decompose \/ Return

SpecDecompose == InitDecompose /\ [][NextDecompose]_vars

(***************************************************************************)
(* The lookup queries                                                      *)
(***************************************************************************)

MaxInputLen == 2

\* the unicode fields of the lookup tables: hex strings in both cases, a five-digit
\* one, and the '' that _convert_format stores for a payload entry without the field
UnicodesR ==
    { <<"6", "7", "2", "8">>, <<"6", "7", "2", "a">>, <<"6", "7", "2", "A">>,
      <<"2", "0", "0", "0", "B">>, <<>> }

\* the keys of the lookup tables; the loader accepts any mapping, so a whitespace
\* character can be a key
KeysR == { <<"mu">>, <<"lin">>, <<" ">> }

RecordsR(c) ==
    { [char |-> c, unicode |-> u, ids_1 |-> <<>>, ids_2 |-> <<>>] : u \in UnicodesR }

\* every ordering of every non-empty set of keys, each key with any unicode field
TablesR ==
    { t \in UNION { [1..n -> UNION { RecordsR(k) : k \in KeysR }] : n \in 1..3 } :
          \A i \in 1..Len(t) : \A j \in 1..Len(t) : t[i].char = t[j].char => i = j }

\* the spellings a Unicode query is typed with
PrefixesR ==
    { <<>>, <<"U", "+">>, <<"u">>, <<"u", "n", "i">>, <<"U", "N", "I">>,
      <<"U", "n", "i">>, <<"u", "+">>, <<"U">>, <<"u", "N", "I">> }

BodiesR ==
    { <<>>, <<"6", "7", "2", "8">>, <<"6", "7", "2", "a">>, <<"6", "7", "2", "A">>,
      <<"2", "0", "0", "0", "B">>, <<"2", "0", "0", "0", "b">>, <<"6", "7", "2">> }

\* typed text: characters of the table, one outside it, and whitespace
TextCharsR == { "mu", "lin", "sen", " " }

TextsR == UNION { [1..n -> TextCharsR] : n \in 1..MaxInputLen }

InputsR == ({ p \o b : p \in PrefixesR, b \in BodiesR } \ {<<>>}) \cup TextsR

InitResolve ==
    /\ db \in TablesR
    /\ call = NoCall
    /\ ret = <<>>
    /\ Idle

GetData ==
    \E s \in InputsR :
        /\ call = NoCall
        /\ call' = [op |-> "get_data", arg |-> s, max_depth |-> 0, variant_index |-> 0,
                    charset |-> NoCharset]
        /\ ret' = get_data(s)
        /\ UNCHANGED <<db, stack, out, visited>>

NextResolve == GetData \/ Return

SpecResolve == InitResolve /\ [][NextResolve]_vars

(***************************************************************************)
(* The sister-character queries                                            *)
(***************************************************************************)

\* first variants of the sister tables: none, one component with and without an
\* IDC, and two-component variants that agree or differ in structure and position
Ids1S ==
    { <<>>,
      <<"mu">>,
      <<"VAR", "mu">>,
      <<"LR", "mu", "ri">>,
      <<"LR", "ri", "mu">>,
      <<"LR", "mu", "yue">>,
      <<"LR", "yue", "yue">>,
      <<"TB", "mu", "ri">> }

Ids2S == { <<>>, <<"mu">>, <<"TB", "ri", "mu">>, <<"LR", "mu", "yue">> }

RecordsS(c, u, I1, I2) ==
    { [char |-> c, unicode |-> u, ids_1 |-> i1, ids_2 |-> i2] : i1 \in I1, i2 \in I2 }

TablesS ==
    { <<a, b, c>> :
        a \in RecordsS(<<"mu">>, <<"6", "7", "2", "8">>, Ids1S, Ids2S),
        b \in RecordsS(<<"lin">>, <<"6", "7", "9", "7">>, Ids1S, Ids2S),
        c \in RecordsS(<<"sen">>, <<"6", "8", "E", "E">>,
                       { <<"LR", "mu", "ri">>, <<"TB", "ri", "mu">> }, { <<>> }) }

CharsS == { <<"mu">>, <<"lin">>, <<"sen">>, <<"ri">> }

CharsetsS == { NoCharset, Charset({<<"lin">>}), Charset({<<"mu">>, <<"sen">>}) }

InitSisters ==
    /\ db \in TablesS
    /\ call = NoCall
    /\ ret = <<>>
    /\ Idle

FindSisters ==
    \E c \in CharsS, cs \in CharsetsS, v \in Selectors :
        /\ call = NoCall
        /\ call' = [op |-> "find_sister_characters", arg |-> c, max_depth |-> 0,
                    variant_index |-> v, charset |-> cs]
        /\ ret' = find_sister_characters(c, cs, v)
        /\ UNCHANGED <<db, stack, out, visited>>

NextSisters == FindSisters \/ Return

SpecSisters == InitSisters /\ [][NextSisters]_vars

(***************************************************************************)
(* The derived-character queries                                           *)
(***************************************************************************)

\* first variants of the derived tables: a character can be a component of itself
\* or of a character that is its own component
Ids1V ==
    { <<>>,
      <<"mu">>,
      <<"LR", "mu", "mu">>,
      <<"LR", "lin", "ri">>,
      <<"TB", "sen", "mu">>,
      <<"TB", "ri", "yue">> }

Ids2V == { <<>>, <<"TB", "ri", "mu">> }

TablesV ==
    { <<a, b, c>> :
        a \in RecordsS(<<"mu">>, <<"6", "7", "2", "8">>, Ids1V, Ids2V),
        b \in RecordsS(<<"lin">>, <<"6", "7", "9", "7">>, Ids1V, Ids2V),
        c \in RecordsS(<<"sen">>, <<"6", "8", "E", "E">>, Ids1V, Ids2V) }

InitDerived ==
    /\ db \in TablesV
    /\ call = NoCall
    /\ ret = <<>>
    /\ Idle

FindDerived ==
    \E c \in CharsS, cs \in CharsetsS :
        /\ call = NoCall
        /\ call' = [op |-> "find_derived_characters", arg |-> c, max_depth |-> 0,
                    variant_index |-> 0, charset |-> cs]
        /\ ret' = find_derived_characters(c, cs)
        /\ UNCHANGED <<db, stack, out, visited>>

NextDerived == FindDerived \/ Return

SpecDerived == InitDerived /\ [][NextDerived]_vars

(***************************************************************************)
(* The parse queries                                                       *)
(***************************************************************************)

\* the longest IDS string asked to be parsed
MaxIdsLen == 4

\* parse_ids(ids): a list of str gives one token list per element, a str a
\* one-element outer list
parse_ids_list(ids) == [n \in 1..Len(ids) |-> split_special_chars(ids[n])]

parse_ids(ids) == <<split_special_chars(ids)>>

\* the characters of the IDS strings asked for: the entity delimiters, a space, an
\* IDC and a component
IdsCharsP == {"&", ";", " ", "LR", "mu"}

RECURSIVE StringsUpTo(_, _)
StringsUpTo(A, n) ==
    IF n = 0 THEN { <<>> }
    ELSE LET shorter == StringsUpTo(A, n - 1)
         IN  shorter \cup { Append(s, a) : s \in shorter, a \in A }

IdsStringsP == StringsUpTo(IdsCharsP, MaxIdsLen)

IdsListsP ==
    LET short == StringsUpTo(IdsCharsP, MaxIdsLen - 2)
    IN  { <<>> } \cup { <<a>> : a \in short } \cup { <<a, b>> : a \in short, b \in short }

InitParse ==
    /\ db = <<>>
    /\ call = NoCall
    /\ ret = <<>>
    /\ Idle

ParseIds ==
    \E ids \in IdsStringsP :
        /\ call = NoCall
        /\ call' = [op |-> "parse_ids", arg |-> ids, max_depth |-> 0, variant_index |-> 0,
                    charset |-> NoCharset]
        /\ ret' = parse_ids(ids)
        /\ UNCHANGED <<db, stack, out, visited>>

ParseIdsList ==
    \E ids \in IdsListsP :
        /\ call = NoCall
        /\ call' = [op |-> "parse_ids_list", arg |-> ids, max_depth |-> 0,
                    variant_index |-> 0, charset |-> NoCharset]
        /\ ret' = parse_ids_list(ids)
        /\ UNCHANGED <<db, stack, out, visited>>

NextParse == ParseIds \/ ParseIdsList \/ Return

SpecParse == InitParse /\ [][NextParse]_vars

(***************************************************************************)
(* The result list: a decomposition rendered, and a character taken back   *)
(* from a rendered entry                                                   *)
(***************************************************************************)

\* the table universe of the rendered decompositions: entity references (one with a
\* space inside), a nested IDC, the tree glyph as a component, a cycle
TablesX ==
    { << [char |-> <<"mu">>, unicode |-> <<"6", "7", "2", "8">>, ids_1 |-> a1, ids_2 |-> a2],
         [char |-> <<"lin">>, unicode |-> <<"6", "7", "9", "7">>, ids_1 |-> b1, ids_2 |-> <<>>] >> :
        a1 \in { <<"LR", "&", "e", ";", "mu">>,
                 <<"LR", "&", "e", " ", "e", ";", "lin">>,
                 <<"TB", "lin", "bar">>,
                 <<"mu">> },
        a2 \in { <<>>, <<"TB", "ri", "yue">> },
        b1 \in { <<"LR", "mu", "lin">>, <<"TB", "LR", "mu", "ri">>, <<>> } }

CharsX == { <<"mu">>, <<"lin">>, <<"ri">> }

InitExtract ==
    /\ db \in TablesX
    /\ call = NoCall
    /\ ret = <<>>
    /\ Idle

\* self.all_results = self.core.decompose(char, max_depth=depth)
DecomposeForList ==
    \E c \in CharsX, k \in 0..MaxK, v \in Selectors :
        /\ call = NoCall
        /\ call' = [op |-> "decompose", arg |-> c, max_depth |-> k, variant_index |-> v,
                    charset |-> NoCharset]
        /\ ret' = decompose(c, k, v)
        /\ UNCHANGED <<db, stack, out, visited>>

\* display_results = [f"{tree}{content}" ...]; extract_character(selected_item) on
\* one row of the list; out keeps the (tree, content) entry behind the row
ExtractCharacter ==
    /\ call.op = "decompose"
    /\ \E n \in 1..Len(ret) :
        /\ call' = [op |-> "extract_character", arg |-> ret[n][1] \o ret[n][2],
                    max_depth |-> 0, variant_index |-> 0, charset |-> NoCharset]
        /\ out' = ret[n]
        /\ ret' = extract_character(ret[n][1] \o ret[n][2])
        /\ UNCHANGED <<db, stack, visited>>

\* the list is dropped
ClearList ==
    /\ call.op \in {"decompose", "extract_character"}
    /\ call' = NoCall
    /\ ret' = <<>>
    /\ out' = <<>>
    /\ UNCHANGED <<db, stack, visited>>

NextExtract == DecomposeForList \/ ExtractCharacter \/ ClearList

SpecExtract == InitExtract /\ [][NextExtract]_vars

(***************************************************************************)
(* The recursions step by step: the call stack of _decompose_recursive and *)
(* of process_component                                                    *)
(***************************************************************************)

\* the deepest decomposition the stepped runs ask for
MaxRunDepth == 2

\* the interpreter's recursion limit (sys.getrecursionlimit()), scaled down: a call
\* beyond it cannot be made
MaxStack == 7

\* one activation of a recursive function: its argument, its level (depth), the
\* position in its loops, and the list it is building (result) or walking
\* (sub_components)
Frame(fn, c, level) ==
    [fn |-> fn, char |-> c, level |-> level, pc |-> "enter", idx |-> 0, i |-> 0,
     result |-> <<>>]

Top == stack[Len(stack)]

Below == SubSeq(stack, 1, Len(stack) - 1)

SetTop(f) == Below \o <<f>>

InFrame(fn, pc) == stack # <<>> /\ Top.fn = fn /\ Top.pc = pc

\* self._decompose_recursive(comp, level + 1, ...)
NextLevelSame(level) == level
NextLevel(level) == level + 1

\* the tests of _decompose_recursive that return a single leaf
IsLeafEntry(f) ==
    IF AtMaxDepth(f.level, call.max_depth) THEN TRUE
    ELSE IF ~In_db(f.char) THEN TRUE
    ELSE LET ids_list == ids_list_of(db_get(f.char), call.variant_index)
         IN  IF ids_list = <<>> THEN TRUE ELSE NoIDC(ids_list)

EntryLeaf(f) ==
    IF AtMaxDepth(f.level, call.max_depth) THEN MaxDepthLeaf(f.char, f.level)
    ELSE Leaf(f.char, f.level)

FrameIdsList(f) == ids_list_of(db_get(f.char), call.variant_index)

FrameIds(f) == FrameIdsList(f)[f.idx + 1]

FrameComponents(f) == PyTail(parse_ids0(FrameIds(f)))

\* "return result": to the caller's result.extend(sub_result[1:]), or out of
\* decompose
DeliverDecompose(sub_result) ==
    IF Len(stack) = 1
    THEN stack' = <<>> /\ ret' = sub_result
    ELSE /\ stack' = SubSeq(stack, 1, Len(stack) - 2)
                     \o <<[stack[Len(stack) - 1] EXCEPT !.result = @ \o Splice(sub_result)]>>
         /\ ret' = ret

\* derived_groups[matched_comp].append(c) for every matched_comp in matching
FileUnder(groups, matching, c) ==
    [k \in (DOMAIN groups) \cup matching |->
        (IF k \in DOMAIN groups THEN groups[k] ELSE <<>>)
        \o (IF k \in matching THEN <<c>> ELSE <<>>)]

\* the table universe of the stepped runs: a chain of five nested components
\* (mu, lin, sen, ming, yue) and cycles through mu and lin
TablesRun ==
    { << [char |-> <<"mu">>, unicode |-> <<"6", "7", "2", "8">>, ids_1 |-> a1, ids_2 |-> a2],
         [char |-> <<"lin">>, unicode |-> <<"6", "7", "9", "7">>, ids_1 |-> b1, ids_2 |-> <<>>],
         [char |-> <<"sen">>, unicode |-> <<"6", "8", "E", "E">>, ids_1 |-> c1, ids_2 |-> <<>>],
         [char |-> <<"ming">>, unicode |-> <<"6", "6", "0", "E">>, ids_1 |-> d1, ids_2 |-> <<>>] >> :
        a1 \in { <<"LR", "lin", "mu">>, <<"mu">> },
        a2 \in { <<>>, <<"TB", "mu", "ri">> },
        b1 \in { <<"TB", "sen", "sen">>, <<"LR", "mu", "ri">>, <<>> },
        c1 \in { <<"LR", "ming", "lin">>, <<"TB", "ri", "yue">> },
        d1 \in { <<"LR", "ri", "yue">>, <<"TB", "yue", "mu">> } }

CharsRun == { <<"mu">>, <<"lin">>, <<"ri">> }

CharsetsRun == { NoCharset, Charset({<<"lin">>}) }

InitRun ==
    /\ db \in TablesRun
    /\ call = NoCall
    /\ ret = <<>>
    /\ stack = <<>>
    /\ out = {}
    /\ visited = {}

\* decompose(char, max_depth, variant_index) calls _decompose_recursive(char, 0, ...)
RunDecompose ==
    \E c \in CharsRun, k \in 0..MaxRunDepth, v \in Selectors :
        /\ call = NoCall
        /\ call' = [op |-> "decompose", arg |-> c, max_depth |-> k, variant_index |-> v,
                    charset |-> NoCharset]
        /\ stack' = <<Frame("_decompose_recursive", c, 0)>>
        /\ UNCHANGED <<db, ret, out, visited>>

\* one of the early returns: maximum depth, no record, no IDS, no IDC
DecomposeLeaf ==
    /\ InFrame("_decompose_recursive", "enter")
    /\ IsLeafEntry(Top)
    /\ DeliverDecompose(EntryLeaf(Top))
    /\ UNCHANGED <<db, call, out, visited>>

\* result = [("", char)]
DecomposeOpen ==
    /\ InFrame("_decompose_recursive", "enter")
    /\ ~IsLeafEntry(Top)
    /\ stack' = SetTop([Top EXCEPT !.pc = "loop", !.result = << <<(<<>>), Top.char>> >>])
    /\ UNCHANGED <<db, call, ret, out, visited>>

\* the head of one turn of "for idx, ids in enumerate(ids_list)"
DecomposeVariant ==
    /\ InFrame("_decompose_recursive", "loop")
    /\ Top.idx < Len(FrameIdsList(Top))
    /\ Top.i = 0
    /\ LET ids == FrameIds(Top)
           indent == Repeat(INDENT, Top.level)
       IN  stack' = SetTop(
               IF ids = Top.char
               THEN [Top EXCEPT !.result = @ \o << <<indent, Top.char>> >>
                                            \o Separator(Top.idx, Len(FrameIdsList(Top)),
                                                         Top.level),
                                !.idx = @ + 1]
               ELSE [Top EXCEPT !.result = @ \o << <<indent, <<ids[1]>> >> >>,
                                !.i = 1])
    /\ UNCHANGED <<db, call, ret, out, visited>>

\* one turn of "for i, comp in enumerate(components)": the component's entry, and
\* the recursive call when the component has a record with an IDS
DecomposeComponent ==
    /\ InFrame("_decompose_recursive", "loop")
    /\ Top.idx < Len(FrameIdsList(Top))
    /\ Top.i >= 1 /\ Top.i <= Len(FrameComponents(Top))
    /\ LET components == FrameComponents(Top)
           comp == components[Top.i]
           entry == <<BranchPrefix(Top.level, Top.i = Len(components)), comp>>
           here == [Top EXCEPT !.result = @ \o <<entry>>, !.i = @ + 1]
       IN  IF Recurses(comp, TRUE)
           THEN /\ Len(stack) < MaxStack
                /\ stack' = SetTop(here)
                            \o <<Frame("_decompose_recursive", comp, NextLevel(Top.level))>>
           ELSE stack' = SetTop(here)
    /\ UNCHANGED <<db, call, ret, out, visited>>

\* the end of one turn of the variant loop: the "or" separator
DecomposeVariantEnd ==
    /\ InFrame("_decompose_recursive", "loop")
    /\ Top.idx < Len(FrameIdsList(Top))
    /\ Top.i > Len(FrameComponents(Top))
    /\ stack' = SetTop([Top EXCEPT !.result = @ \o Separator(Top.idx,
                                                    Len(FrameIdsList(Top)), Top.level),
                                   !.idx = @ + 1, !.i = 0])
    /\ UNCHANGED <<db, call, ret, out, visited>>

\* return result
DecomposeReturn ==
    /\ InFrame("_decompose_recursive", "loop")
    /\ Top.idx >= Len(FrameIdsList(Top))
    /\ DeliverDecompose(Top.result)
    /\ UNCHANGED <<db, call, out, visited>>

\* find_derived_characters(char, charset) calls process_component(char)
RunFindDerived ==
    \E c \in CharsRun, cs \in CharsetsRun :
        /\ call = NoCall
        /\ call' = [op |-> "find_derived_characters", arg |-> c, max_depth |-> 0,
                    variant_index |-> 0, charset |-> cs]
        /\ stack' = <<Frame("find_derived_characters", c, 0)>>
        /\ UNCHANGED <<db, ret, out, visited>>

\* process_component(char)
DerivedWalk ==
    /\ InFrame("find_derived_characters", "enter")
    /\ stack' = SetTop([Top EXCEPT !.pc = "loop"])
                \o <<Frame("process_component", Top.char, 0)>>
    /\ UNCHANGED <<db, call, ret, out, visited>>

\* if depth >= MAX_DEPTH or component in visited_components: return
WalkStops(f) == IF f.level >= MAX_DEPTH THEN TRUE ELSE f.char \in visited

WalkCut ==
    /\ InFrame("process_component", "enter")
    /\ WalkStops(Top)
    /\ stack' = Below
    /\ UNCHANGED <<db, call, ret, out, visited>>

\* the component is visited and decomposed one level
WalkVisit ==
    /\ InFrame("process_component", "enter")
    /\ ~WalkStops(Top)
    /\ visited' = visited \cup {Top.char}
    /\ out' = IF Top.char # <<>> /\ Top.char \notin special_chars
              THEN out \cup {Top.char} ELSE out
    /\ stack' = SetTop([Top EXCEPT !.pc = "loop", !.i = 1,
                                   !.result = decompose(Top.char, 1, 0)])
    /\ UNCHANGED <<db, call, ret>>

\* one turn of "for op, comp in sub_components"
WalkComponent ==
    /\ InFrame("process_component", "loop")
    /\ Top.i <= Len(Top.result)
    /\ LET comp == Top.result[Top.i][2]
           here == [Top EXCEPT !.i = @ + 1]
       IN  IF comp \notin special_chars
           THEN /\ out' = out \cup {comp}
                /\ IF Top.level < MAX_DEPTH /\ comp \notin visited
                   THEN /\ Len(stack) < MaxStack
                        /\ stack' = SetTop(here)
                                    \o <<Frame("process_component", comp, Top.level + 1)>>
                   ELSE stack' = SetTop(here)
           ELSE /\ out' = out
                /\ stack' = SetTop(here)
    /\ UNCHANGED <<db, call, ret, visited>>

\* the loop over sub_components is over
WalkReturn ==
    /\ InFrame("process_component", "loop")
    /\ Top.i > Len(Top.result)
    /\ stack' = Below
    /\ UNCHANGED <<db, call, ret, out, visited>>

\* one turn of "for c, data in self.db.items()": the candidate is skipped, or filed
\* under each of its matching components
DerivedCandidate ==
    /\ InFrame("find_derived_characters", "loop")
    /\ Top.idx < Len(db)
    /\ LET c == db[Top.idx + 1].char
       IN  stack' = SetTop(
               IF is_candidate(c, Top.char, call.charset)
               THEN [Top EXCEPT !.idx = @ + 1,
                                !.result = FileUnder(@, matching_components(c, out), c)]
               ELSE [Top EXCEPT !.idx = @ + 1])
    /\ UNCHANGED <<db, call, ret, out, visited>>

\* return derived_groups
DerivedReturn ==
    /\ InFrame("find_derived_characters", "loop")
    /\ Top.idx >= Len(db)
    /\ stack' = <<>>
    /\ ret' = Top.result
    /\ UNCHANGED <<db, call, out, visited>>

\* the caller takes the result; the sets local to the call are gone
ReturnRun ==
    /\ call.op # "init"
    /\ stack = <<>>
    /\ call' = NoCall
    /\ ret' = <<>>
    /\ out' = {}
    /\ visited' = {}
    /\ UNCHANGED <<db, stack>>

\* the steps of a running call
StepRun ==
    \/ DecomposeLeaf \/ DecomposeOpen \/ DecomposeVariant \/ DecomposeComponent
    \/ DecomposeVariantEnd \/ DecomposeReturn
    \/ DerivedWalk \/ WalkCut \/ WalkVisit \/ WalkComponent \/ WalkReturn
    \/ DerivedCandidate \/ DerivedReturn

NextRun == RunDecompose \/ RunFindDerived \/ StepRun \/ ReturnRun

\* a call that has started keeps running: the interpreter executes it to its return
SpecRun == InitRun /\ [][NextRun]_vars /\ WF_vars(StepRun)

(***************************************************************************)
(* Queries asked twice                                                     *)
(***************************************************************************)

\* the orders in which the elements of a set can come out of an iteration: the
\* order of a Python set is a matter of the hashes of its elements
Orders(S) ==
    { o \in [1..Cardinality(S) -> S] : \A x \in S : \E i \in 1..Cardinality(S) : o[i] = x }

\* for matched_comp in matching_components: derived_groups[matched_comp].append(c),
\* under the first component of the iteration only
file_candidate_first(groups, order, c) ==
    IF order = <<>> THEN groups ELSE SetDefaultAppend(groups, order[1], c)

\* for matched_comp in matching_components: derived_groups[matched_comp].append(c),
\* derived_groups a dict in insertion order
RECURSIVE file_candidate(_, _, _)
file_candidate(groups, order, c) ==
    IF order = <<>> THEN groups
    ELSE file_candidate(SetDefaultAppend(groups, order[1], c), PyTail(order), c)

\* the candidate loop from table position i on, the sets iterated as orders[i] says
RECURSIVE derived_groups_from(_, _, _, _, _)
derived_groups_from(i, groups, char, charset, orders) ==
    IF i > Len(db) THEN groups
    ELSE derived_groups_from(
             i + 1,
             IF is_candidate(db[i].char, char, charset)
             THEN file_candidate(groups, orders[i], db[i].char)
             ELSE groups,
             char, charset, orders)

\* one iteration order for the matching_components of each of the first n records
RECURSIVE OrderChoices(_, _)
OrderChoices(n, parts) ==
    IF n = 0 THEN { <<>> }
    ELSE { Append(p, o) : p \in OrderChoices(n - 1, parts),
                          o \in Orders(matching_components(db[n].char, parts)) }

\* the dicts find_derived_characters can return
find_derived_characters_dicts(char, charset) ==
    { derived_groups_from(1, <<>>, char, charset, orders) :
        orders \in OrderChoices(Len(db), decomposed_parts(char)) }

\* a dict in insertion order read as Python compares dicts: a mapping of keys to values
AsMapping(d) ==
    [k \in { d[i][1] : i \in 1..Len(d) } |-> (CHOOSE e \in ToSet(d) : e[1] = k)[2]]

\* the deepest decomposition asked for twice
MaxRepeatDepth == 2

IdsT ==
    { <<>>,
      <<"LR", "mu", "ri">>,
      <<"TB", "ri", "yue">>,
      <<"LR", "lin", "ri">> }

TablesT ==
    { <<a, b, c>> :
        a \in RecordsS(<<"mu">>, <<"6", "7", "2", "8">>, IdsT, Ids2V),
        b \in RecordsS(<<"lin">>, <<"6", "7", "9", "7">>, IdsT, Ids2V),
        c \in RecordsS(<<"sen">>, <<"6", "8", "E", "E">>, IdsT, Ids2V) }

InputsT == { <<"mu">>, <<"ri">>, <<"U", "+", "6", "7", "9", "7">>, <<"ri", "sen">> }

\* the queries and their arguments
QueriesT ==
    { [op |-> "get_data", arg |-> s, max_depth |-> 0, variant_index |-> 0,
       charset |-> NoCharset] : s \in InputsT }
    \cup { [op |-> "parse_ids", arg |-> s, max_depth |-> 0, variant_index |-> 0,
            charset |-> NoCharset] : s \in IdsD }
    \cup { [op |-> "decompose", arg |-> c, max_depth |-> k, variant_index |-> v,
            charset |-> NoCharset] : c \in CharsD, k \in 0..MaxRepeatDepth, v \in Selectors }
    \cup { [op |-> "find_sister_characters", arg |-> c, max_depth |-> 0, variant_index |-> v,
            charset |-> cs] : c \in CharsS, cs \in CharsetsS, v \in Selectors }
    \cup { [op |-> "find_derived_characters", arg |-> c, max_depth |-> 0,
            variant_index |-> 0, charset |-> cs] : c \in CharsS, cs \in CharsetsS }

\* the results the query q can return on the table
Results(q) ==
    CASE q.op = "get_data" -> { get_data(q.arg) }
      [] q.op = "parse_ids" -> { parse_ids(q.arg) }
      [] q.op = "decompose" -> { decompose(q.arg, q.max_depth, q.variant_index) }
      [] q.op = "find_sister_characters" ->
             { find_sister_characters(q.arg, q.charset, q.variant_index) }
      [] q.op = "find_derived_characters" ->
             find_derived_characters_dicts(q.arg, q.charset)

InitRepeat ==
    /\ db \in TablesT
    /\ call = NoCall
    /\ ret = <<>>
    /\ Idle

\* the first call of a query
Ask ==
    \E q \in QueriesT :
        /\ call = NoCall
        /\ call' = q
        /\ \E r \in Results(q) : ret' = r
        /\ UNCHANGED <<db, stack, out, visited>>

\* the same query once more, the first result kept aside
AskAgain ==
    /\ call.op # "init"
    /\ out = <<>>
    /\ out' = <<ret>>
    /\ \E r \in Results(call) : ret' = r
    /\ UNCHANGED <<db, call, stack, visited>>

ReturnRepeat ==
    /\ out # <<>>
    /\ call' = NoCall
    /\ ret' = <<>>
    /\ out' = <<>>
    /\ UNCHANGED <<db, stack, visited>>

NextRepeat == Ask \/ AskAgain \/ ReturnRepeat

SpecRepeat == InitRepeat /\ [][NextRepeat]_vars

(***************************************************************************)
(* search, get_ids_variants, and the engine under every query              *)
(***************************************************************************)

LowerChar(ch) ==
    IF \E i \in 1..Len(UPPER) : UPPER[i] = ch
    THEN LOWER[CHOOSE i \in 1..Len(UPPER) : UPPER[i] = ch]
    ELSE ch
Lower(s) == [i \in 1..Len(s) |-> LowerChar(s[i])]

\* found, for one record of the loop of search
found_by_search(data, query_lower) ==
    IF InStr(query_lower, Lower(data.char)) THEN TRUE
    ELSE IF InStr(query_lower, Lower(data.unicode)) THEN TRUE
    ELSE \E n \in 1..Len(ids_variants(data)) :
             \E ids_part \in ToSet(parse_ids(ids_variants(data)[n])[1]) :
                 query_lower = Lower(ids_part)

search(query, charset) ==
    LET Found(data) == found_by_search(data, Lower(query))
        InCharset(data) == charset.none \/ data.char \in charset.chars
        results == SelectSeq(SelectSeq(db, Found), InCharset)
    IN  [n \in 1..Len(results) |-> results[n].char]

get_ids_variants(char) ==
    IF ~In_db(char) THEN <<>> ELSE ids_variants(db_get(char))

\* what the query is typed with in search
QueriesQ == { <<>>, <<"mu">>, <<"ri">>, <<"6", "7">>, <<"e", "e">>, <<"LR">> }

InitQueries ==
    /\ db \in TablesT
    /\ call = NoCall
    /\ ret = <<>>
    /\ Idle

QGetData ==
    \E s \in InputsT :
        /\ call = NoCall
        /\ call' = [op |-> "get_data", arg |-> s, max_depth |-> 0, variant_index |-> 0,
                    charset |-> NoCharset]
        /\ ret' = get_data(s)
        /\ UNCHANGED <<db, stack, out, visited>>

QParseIds ==
    \E s \in IdsD :
        /\ call = NoCall
        /\ call' = [op |-> "parse_ids", arg |-> s, max_depth |-> 0, variant_index |-> 0,
                    charset |-> NoCharset]
        /\ ret' = parse_ids(s)
        /\ UNCHANGED <<db, stack, out, visited>>

QSearch ==
    \E s \in QueriesQ, cs \in CharsetsS :
        /\ call = NoCall
        /\ call' = [op |-> "search", arg |-> s, max_depth |-> 0, variant_index |-> 0,
                    charset |-> cs]
        /\ ret' = search(s, cs)
        /\ UNCHANGED <<db, stack, out, visited>>

QDecompose ==
    \E c \in CharsD, k \in 0..MaxRepeatDepth, v \in Selectors :
        /\ call = NoCall
        /\ call' = [op |-> "decompose", arg |-> c, max_depth |-> k, variant_index |-> v,
                    charset |-> NoCharset]
        /\ ret' = decompose(c, k, v)
        /\ UNCHANGED <<db, stack, out, visited>>

QFindSisters ==
    \E c \in CharsS, cs \in CharsetsS, v \in Selectors :
        /\ call = NoCall
        /\ call' = [op |-> "find_sister_characters", arg |-> c, max_depth |-> 0,
                    variant_index |-> v, charset |-> cs]
        /\ ret' = find_sister_characters(c, cs, v)
        /\ UNCHANGED <<db, stack, out, visited>>

QFindDerived ==
    \E c \in CharsS, cs \in CharsetsS :
        /\ call = NoCall
        /\ call' = [op |-> "find_derived_characters", arg |-> c, max_depth |-> 0,
                    variant_index |-> 0, charset |-> cs]
        /\ ret' \in find_derived_characters_dicts(c, cs)
        /\ UNCHANGED <<db, stack, out, visited>>

\* get_ids_variants written with self.db.setdefault(char, {}) in place of
\* self.db.get(char): a character asked for enters the table
QGetIdsVariantsSetDefault ==
    \E c \in CharsS :
        /\ call = NoCall
        /\ call' = [op |-> "get_ids_variants", arg |-> c, max_depth |-> 0,
                    variant_index |-> 0, charset |-> NoCharset]
        /\ ret' = get_ids_variants(c)
        /\ db' = IF In_db(c) THEN db
                 ELSE Append(db, [char |-> c, unicode |-> <<>>, ids_1 |-> <<>>, ids_2 |-> <<>>])
        /\ UNCHANGED <<stack, out, visited>>

QGetIdsVariants ==
    \E c \in CharsS :
        /\ call = NoCall
        /\ call' = [op |-> "get_ids_variants", arg |-> c, max_depth |-> 0,
                    variant_index |-> 0, charset |-> NoCharset]
        /\ ret' = get_ids_variants(c)
        /\ UNCHANGED <<db, stack, out, visited>>

NextQueries ==
    \/ QGetData
    \/ QParseIds
    \/ QSearch
    \/ QDecompose
    \/ QFindSisters
    \/ QFindDerived
    \/ QGetIdsVariants
    \/ Return

SpecQueries == InitQueries /\ [][NextQueries]_vars

(***************************************************************************)
(* Construction: __init__, _resolve_path, _load_database, _convert_format  *)
(***************************************************************************)

\* a payload entry's value that is no mapping (a str, None, a list)
NotAMapping == [mapping |-> FALSE, fields |-> <<>>]

\* data.get(name, '')
data_get(data, name) == IF name \in DOMAIN data.fields THEN data.fields[name] ELSE <<>>

\* the record _convert_format stores under char
convert_record(char, data) ==
    [char |-> char,
     unicode |-> data_get(data, "unicode"),
     ids_1 |-> data_get(data, "ids_1"),
     ids_2 |-> data_get(data, "ids_2")]

\* the values of a payload entry: each field missing or present, a variant None
FieldsC ==
    { f \in UNION { [D -> { <<"6", "7", "2", "8">>, <<"LR", "mu", "ri">>, NoneValue }] :
                      D \in SUBSET {"unicode", "ids_1", "ids_2"} } :
        /\ "unicode" \in DOMAIN f => f["unicode"] = <<"6", "7", "2", "8">>
        /\ "ids_1" \in DOMAIN f => f["ids_1"] # <<"6", "7", "2", "8">>
        /\ "ids_2" \in DOMAIN f => f["ids_2"] # <<"6", "7", "2", "8">> }

DataC == { [mapping |-> TRUE, fields |-> f] : f \in FieldsC } \cup { NotAMapping }

\* the most entries of a payload
MaxEntries == 2

KeysC == << <<"mu">>, <<"lin">>, <<"sen">> >>

\* the payloads that are mappings: up to MaxEntries entries in insertion order,
\* their keys distinct
PayloadsC ==
    { [mapping |-> TRUE, entries |-> e] :
        e \in UNION { { [i \in 1..n |-> <<KeysC[i], d[i]>>] : d \in [1..n -> DataC] } :
                        n \in 0..MaxEntries } }

\* what is at data_path: nothing, a file gzip cannot read, a gzip stream pickle
\* cannot load, and a pickled object that is or is not a mapping
FilesC ==
    { [exists |-> FALSE, gzip |-> "none", pickle |-> "none",
       payload |-> [mapping |-> FALSE, entries |-> <<>>]] }
    \cup { [exists |-> TRUE, gzip |-> g, pickle |-> "none",
            payload |-> [mapping |-> FALSE, entries |-> <<>>]] :
             g \in {"BadGzipFile", "EOFError", "IsADirectoryError"} }
    \cup { [exists |-> TRUE, gzip |-> "ok", pickle |-> p,
            payload |-> [mapping |-> FALSE, entries |-> <<>>]] :
             p \in {"UnpicklingError", "EOFError", "AttributeError"} }
    \cup { [exists |-> TRUE, gzip |-> "ok", pickle |-> "ok",
            payload |-> [mapping |-> FALSE, entries |-> <<>>]] }
    \cup { [exists |-> TRUE, gzip |-> "ok", pickle |-> "ok", payload |-> p] : p \in PayloadsC }

\* how a constructor call ends
Instance == [instance |-> TRUE, raised |-> "none"]
Raised(e) == [instance |-> FALSE, raised |-> e]

\* no engine yet; the file system is in out, self.db is not assigned
InitConstruct ==
    /\ out \in FilesC
    /\ db = <<>>
    /\ call = NoCall
    /\ ret = <<>>
    /\ stack = <<>>
    /\ visited = {}

\* HanziCore(data_path)
Construct ==
    /\ call = NoCall
    /\ ret = <<>>
    /\ call' = [NoCall EXCEPT !.op = "__init__"]
    /\ stack' = << [fn |-> "_resolve_path", converted_data |-> <<>>, i |-> 0] >>
    /\ UNCHANGED <<db, ret, out, visited>>

InFn(name) == call.op = "__init__" /\ stack # <<>> /\ stack[Len(stack)].fn = name

\* if not path_obj.exists(): raise FileNotFoundError
ResolvePathMissing ==
    /\ InFn("_resolve_path")
    /\ ~out.exists
    /\ ret' = Raised("FileNotFoundError")
    /\ stack' = <<>>
    /\ UNCHANGED <<db, call, out, visited>>

\* return path_obj; self.db = self._load_database() begins
ResolvePath ==
    /\ InFn("_resolve_path")
    /\ out.exists
    /\ stack' = << [fn |-> "_load_database", converted_data |-> <<>>, i |-> 0] >>
    /\ UNCHANGED <<db, call, ret, out, visited>>

\* gzip.open / pickle.load raise; the handlers turn gzip.BadGzipFile and
\* pickle.UnpicklingError into ValueError and everything else into RuntimeError
LoadRaises ==
    /\ InFn("_load_database")
    /\ out.gzip # "ok" \/ out.pickle # "ok"
    /\ ret' = Raised(IF out.gzip = "BadGzipFile" \/ out.pickle = "UnpicklingError"
                     THEN "ValueError" ELSE "RuntimeError")
    /\ stack' = <<>>
    /\ UNCHANGED <<db, call, out, visited>>

\* if not isinstance(pdata, dict): raise ValueError, inside the try: the last
\* handler catches it and raises RuntimeError
LoadNotMapping ==
    /\ InFn("_load_database")
    /\ out.gzip = "ok" /\ out.pickle = "ok"
    /\ ~out.payload.mapping
    /\ ret' = Raised("RuntimeError")
    /\ stack' = <<>>
    /\ UNCHANGED <<db, call, out, visited>>

\* return self._convert_format(pdata): converted_data = {}
ConvertBegin ==
    /\ InFn("_load_database")
    /\ out.gzip = "ok" /\ out.pickle = "ok"
    /\ out.payload.mapping
    /\ stack' = Append(stack, [fn |-> "_convert_format", converted_data |-> <<>>, i |-> 1])
    /\ UNCHANGED <<db, call, ret, out, visited>>

\* the loop stops at an entry whose value has no get and returns what it has
ConvertEntryFailsKeepsConverted ==
    /\ InFn("_convert_format")
    /\ stack[Len(stack)].i <= Len(out.payload.entries)
    /\ ~out.payload.entries[stack[Len(stack)].i][2].mapping
    /\ db' = stack[Len(stack)].converted_data
    /\ ret' = Instance
    /\ stack' = <<>>
    /\ UNCHANGED <<call, out, visited>>

\* data.get raises AttributeError on a value that is no mapping; _load_database
\* catches it and raises RuntimeError; converted_data is dropped
ConvertEntryFails ==
    /\ InFn("_convert_format")
    /\ stack[Len(stack)].i <= Len(out.payload.entries)
    /\ ~out.payload.entries[stack[Len(stack)].i][2].mapping
    /\ ret' = Raised("RuntimeError")
    /\ stack' = <<>>
    /\ UNCHANGED <<db, call, out, visited>>

\* converted_data[char] = {...} for the next entry of pdata.items()
ConvertEntry ==
    /\ InFn("_convert_format")
    /\ stack[Len(stack)].i <= Len(out.payload.entries)
    /\ out.payload.entries[stack[Len(stack)].i][2].mapping
    /\ LET top == stack[Len(stack)]
           entry == out.payload.entries[top.i]
       IN  stack' = [stack EXCEPT ![Len(stack)] =
                        [top EXCEPT !.converted_data =
                                        Append(@, convert_record(entry[1], entry[2])),
                                    !.i = @ + 1]]
    /\ UNCHANGED <<db, call, ret, out, visited>>

\* return converted_data; _load_database returns it; self.db is assigned and the
\* constructor returns
ConvertReturn ==
    /\ InFn("_convert_format")
    /\ stack[Len(stack)].i > Len(out.payload.entries)
    /\ db' = stack[Len(stack)].converted_data
    /\ ret' = Instance
    /\ stack' = <<>>
    /\ UNCHANGED <<call, out, visited>>

NextConstruct ==
    \/ Construct
    \/ ResolvePathMissing
    \/ ResolvePath
    \/ LoadRaises
    \/ LoadNotMapping
    \/ ConvertBegin
    \/ ConvertEntryFails
    \/ ConvertEntry
    \/ ConvertReturn

SpecConstruct == InitConstruct /\ [][NextConstruct]_vars

(***************************************************************************)
(* The generator: IDSGenerator._add_ids_record                             *)
(***************************************************************************)

\* ids_data[unicode_val], ids_data a dict in insertion order
ids_data_get(ids_data, unicode_val) ==
    (CHOOSE e \in ToSet(ids_data) : e[1] = unicode_val)[2]

\* the record a code point gets when it is first seen
new_ids_record(unicode_val, character) ==
    [character |-> character, unicode |-> unicode_val, ids_1 |-> NoneValue, ids_2 |-> NoneValue]

\* the assignment of ids_expression to ids_1 or ids_2, without the test that it
\* differs from ids_1
assign_ids_no_dedup(record, ids_expression) ==
    IF record.ids_1 = NoneValue THEN [record EXCEPT !.ids_1 = ids_expression]
    ELSE IF record.ids_2 = NoneValue THEN [record EXCEPT !.ids_2 = ids_expression]
    ELSE record

\* the assignment of ids_expression to ids_1 or ids_2
assign_ids(record, ids_expression) ==
    IF record.ids_1 = NoneValue THEN [record EXCEPT !.ids_1 = ids_expression]
    ELSE IF record.ids_2 = NoneValue /\ ids_expression # record.ids_1
    THEN [record EXCEPT !.ids_2 = ids_expression]
    ELSE record

\* ids_data after _add_ids_record(ids_data, unicode_val, character, ids_expression)
add_ids_record(ids_data, unicode_val, character, ids_expression) ==
    LET with_record ==
            IF DictHas(ids_data, unicode_val) THEN ids_data
            ELSE Append(ids_data, <<unicode_val, new_ids_record(unicode_val, character)>>)
    IN  [i \in 1..Len(with_record) |->
            IF with_record[i][1] = unicode_val
            THEN <<unicode_val, assign_ids(with_record[i][2], ids_expression)>>
            ELSE with_record[i]]

\* the most calls of _add_ids_record in a run
MaxCalls == 4

\* the code points, characters and non-empty IDS expressions of the source lines
UnicodeValsG == { <<"6", "7", "2", "8">>, <<"6", "7", "9", "7">> }

CharactersG == { <<"mu">>, <<"lin">> }

ExpressionsG == { <<"mu">>, <<"LR", "mu", "ri">>, <<"TB", "ri", "mu">> }

\* the generator starts with an empty ids_data (in out); visited is the numbered
\* list of the calls made
InitGenerate ==
    /\ out = <<>>
    /\ visited = {}
    /\ db = <<>>
    /\ call = NoCall
    /\ ret = <<>>
    /\ stack = <<>>

AddIdsRecord ==
    \E u \in UnicodeValsG, c \in CharactersG, e \in ExpressionsG :
        /\ Cardinality(visited) < MaxCalls
        /\ out' = add_ids_record(out, u, c, e)
        /\ visited' = visited \cup { [n |-> Cardinality(visited) + 1, unicode_val |-> u,
                                      character |-> c, ids_expression |-> e] }
        /\ call' = [NoCall EXCEPT !.op = "_add_ids_record", !.arg = u]
        /\ UNCHANGED <<db, ret, stack>>

NextGenerate == AddIdsRecord

SpecGenerate == InitGenerate /\ [][NextGenerate]_vars

(***************************************************************************)
(* The checks of a result-list text                                        *)
(***************************************************************************)

\* the most pieces a checked text is put together from
MaxPieces == 3

\* pieces of texts: whitespace, a character, a Unicode prefix, and the error
\* indicators whole or in halves
PiecesH ==
    { <<" ">>, <<"mu">>, <<"U", "+">>,
      <<"wei">>, <<"zhao", "dao">>, <<"wei", "zhi">>, <<"zi", "fu">>,
      <<"sou", "xun", "shi", "bai">>,
      <<"wu2">>, <<"fa">>, <<"cuo", "wu4">>,
      <<"da2", "dao", "zui">>, <<"da4", "shen", "du4">> }

RECURSIVE TextsOf(_)
TextsOf(n) ==
    IF n = 0 THEN { <<>> }
    ELSE TextsOf(n - 1) \cup { t \o p : t \in TextsOf(n - 1), p \in PiecesH }

TextsH == TextsOf(MaxPieces)

InitHelpers ==
    /\ db = <<>>
    /\ call = NoCall
    /\ ret = <<>>
    /\ Idle

IsErrorMessage ==
    /\ call = NoCall
    /\ \E text \in TextsH :
        /\ call' = [NoCall EXCEPT !.op = "is_error_message", !.arg = text]
        /\ ret' = is_error_message(text)
        /\ UNCHANGED <<db, stack, out, visited>>

IsValidCharacter ==
    /\ call = NoCall
    /\ \E char \in TextsH :
        /\ call' = [NoCall EXCEPT !.op = "is_valid_character", !.arg = char]
        /\ ret' = is_valid_character(char)
        /\ UNCHANGED <<db, stack, out, visited>>

NextHelpers == IsErrorMessage \/ IsValidCharacter \/ Return

SpecHelpers == InitHelpers /\ [][NextHelpers]_vars

(***************************************************************************)
(* From the generator to the engine: _save_pdata, the loader, the queries  *)
(***************************************************************************)

\* d[k] = v, d a dict in insertion order: a key that is there keeps its place
DictSet(d, k, v) ==
    IF DictHas(d, k) THEN [i \in 1..Len(d) |-> IF d[i][1] = k THEN <<k, v>> ELSE d[i]]
    ELSE Append(d, <<k, v>>)

\* output_data of _save_pdata, from the i-th record of ids_data.values() on
RECURSIVE output_data_from(_, _, _)
output_data_from(ids_data, i, output_data) ==
    IF i > Len(ids_data) THEN output_data
    ELSE LET record == ids_data[i][2]
             value == [mapping |-> TRUE,
                       fields |-> [name \in {"unicode", "ids_1", "ids_2"} |->
                                     IF name = "unicode" THEN record.unicode
                                     ELSE IF name = "ids_1" THEN record.ids_1
                                     ELSE record.ids_2]]
         IN  output_data_from(ids_data, i + 1, DictSet(output_data, record.character, value))

\* the file _save_pdata writes: output_data pickled into a gzip stream
save_pdata(ids_data) ==
    [exists |-> TRUE, gzip |-> "ok", pickle |-> "ok",
     payload |-> [mapping |-> TRUE, entries |-> output_data_from(ids_data, 1, <<>>)]]

\* _convert_format(pdata), every value a mapping
convert_format(pdata) ==
    [i \in 1..Len(pdata.entries) |-> convert_record(pdata.entries[i][1], pdata.entries[i][2])]

\* the file with every field whose value is None left out of its entry
without_unset(file) ==
    [file EXCEPT !.payload.entries =
        [i \in 1..Len(@) |->
            <<@[i][1],
              [mapping |-> TRUE,
               fields |-> [name \in { m \in DOMAIN @[i][2].fields :
                                        @[i][2].fields[m] # NoneValue } |->
                             @[i][2].fields[name]]]>>]]

\* the ids_data tables _add_ids_record builds in up to n calls
RECURSIVE GeneratedBy(_)
GeneratedBy(n) ==
    IF n = 0 THEN { <<>> }
    ELSE GeneratedBy(n - 1)
         \cup { add_ids_record(t, u, c, e) :
                  t \in GeneratedBy(n - 1), u \in UnicodeValsG, c \in CharactersG,
                  e \in ExpressionsG }

IdsDataP == GeneratedBy(MaxCalls)

\* the queries asked of the loaded engine
QueriesP ==
    QueriesT
    \cup { [op |-> "search", arg |-> s, max_depth |-> 0, variant_index |-> 0,
            charset |-> cs] : s \in QueriesQ, cs \in CharsetsS }
    \cup { [op |-> "get_ids_variants", arg |-> c, max_depth |-> 0, variant_index |-> 0,
            charset |-> NoCharset] : c \in CharsS }

ResultsP(q) ==
    IF q.op = "search" THEN { search(q.arg, q.charset) }
    ELSE IF q.op = "get_ids_variants" THEN { get_ids_variants(q.arg) }
    ELSE Results(q)

QueryOps ==
    { "get_data", "parse_ids", "search", "decompose", "find_sister_characters",
      "find_derived_characters", "get_ids_variants" }

\* build() has loaded ids_data (in out) and is about to save it; no engine yet
InitPipeline ==
    /\ out \in IdsDataP
    /\ db = <<>>
    /\ call = [NoCall EXCEPT !.op = "build"]
    /\ ret = <<>>
    /\ stack = <<>>
    /\ visited = {}

\* pdata_path = self._save_pdata(ids_data): the file replaces ids_data in out
SavePdata ==
    /\ call.op = "build"
    /\ out' = save_pdata(out)
    /\ call' = NoCall
    /\ UNCHANGED <<db, ret, stack, visited>>

\* a query of the engine constructed from the file
AskLoaded ==
    \E q \in QueriesP :
        /\ call.op = "__init__"
        /\ stack = <<>>
        /\ ret = Instance
        /\ call' = q
        /\ \E r \in ResultsP(q) : ret' = r
        /\ UNCHANGED <<db, stack, out, visited>>

\* the answer is put aside (in visited); the unset variants are left out of the
\* file and an engine is constructed from it
LoadWithoutUnset ==
    /\ call.op \in QueryOps
    /\ visited = {}
    /\ visited' = {ret}
    /\ out' = without_unset(out)
    /\ db' = convert_format(without_unset(out).payload)
    /\ ret' = Instance
    /\ stack' = << [fn |-> "ask again", converted_data |-> <<>>, i |-> 0] >>
    /\ UNCHANGED call

\* the same query, of the engine constructed from the file without unset variants
AskAgainLoaded ==
    /\ call.op \in QueryOps
    /\ stack # <<>>
    /\ \E r \in ResultsP(call) : ret' = r
    /\ stack' = <<>>
    /\ UNCHANGED <<db, call, out, visited>>

NextPipeline ==
    \/ SavePdata
    \/ Construct
    \/ ResolvePath
    \/ ConvertBegin
    \/ ConvertEntry
    \/ ConvertReturn
    \/ AskLoaded
    \/ LoadWithoutUnset
    \/ AskAgainLoaded

SpecPipeline == InitPipeline /\ [][NextPipeline]_vars

(***************************************************************************)
(* The component walk of find_derived_characters on chains                 *)
(***************************************************************************)

\* six characters in a fixed order; the first five are the keys of the chain tables
ChainP == << <<"sen">>, <<"lin">>, <<"mu">>, <<"ri">>, <<"yue">>, <<"ming">> >>

\* the first variants of key i: none, or one or two components taken from the next
\* character of the chain, the one three places on, and the head of the chain (a
\* cycle), the two-component ones in both orders
IdsOfP(i) ==
    LET next == ChainP[i + 1][1]
        far == ChainP[IF i + 3 > Len(ChainP) THEN Len(ChainP) ELSE i + 3][1]
    IN  { <<>>, <<"VAR", next>>, <<"VAR", far>>, <<"VAR", ChainP[1][1]>>,
          <<"LR", next, far>>, <<"LR", far, next>> }

RecordsP(i) ==
    { [char |-> ChainP[i], unicode |-> <<"0", "0", "0", "0">>, ids_1 |-> i1, ids_2 |-> <<>>] :
        i1 \in IdsOfP(i) }

TablesP ==
    { <<a, b, c, d, e>> : a \in RecordsP(1), b \in RecordsP(2), c \in RecordsP(3),
                          d \in RecordsP(4), e \in RecordsP(5) }

\* out holds decomposed_parts as find_derived_characters leaves it
InitParts ==
    /\ db \in TablesP
    /\ call = NoCall
    /\ ret = <<>>
    /\ Idle

FindDerivedParts ==
    /\ call = NoCall
    /\ \E c \in ToSet(ChainP) :
           /\ call' = [op |-> "find_derived_characters", arg |-> c, max_depth |-> 0,
                       variant_index |-> 0, charset |-> NoCharset]
           /\ out' = decomposed_parts(c)
           /\ ret' = find_derived_characters(c, NoCharset)
    /\ UNCHANGED <<db, stack, visited>>

ReturnParts ==
    /\ call.op # "init"
    /\ call' = NoCall
    /\ ret' = <<>>
    /\ out' = <<>>
    /\ UNCHANGED <<db, stack, visited>>

NextParts == FindDerivedParts \/ ReturnParts

SpecParts == InitParts /\ [][NextParts]_vars

(***************************************************************************)
(* The two searches with a character subset                                *)
(***************************************************************************)

InitSubset ==
    /\ db \in TablesS
    /\ call = NoCall
    /\ ret = <<>>
    /\ Idle

FindSistersSubset ==
    \E c \in CharsS, cs \in CharsetsS, v \in Selectors :
        /\ call = NoCall
        /\ call' = [op |-> "find_sister_characters", arg |-> c, max_depth |-> 0,
                    variant_index |-> v, charset |-> cs]
        /\ ret' = find_sister_characters(c, cs, v)
        /\ UNCHANGED <<db, stack, out, visited>>

FindDerivedSubset ==
    \E c \in CharsS, cs \in CharsetsS :
        /\ call = NoCall
        /\ call' = [op |-> "find_derived_characters", arg |-> c, max_depth |-> 0,
                    variant_index |-> 0, charset |-> cs]
        /\ ret' = find_derived_characters(c, cs)
        /\ UNCHANGED <<db, stack, out, visited>>

NextSubset == FindSistersSubset \/ FindDerivedSubset \/ Return

SpecSubset == InitSubset /\ [][NextSubset]_vars

(***************************************************************************)
(* Claims about decompose                                                  *)
(***************************************************************************)

\* the components a level of decompose would descend into (line 547-549): not an
\* entity reference, not an IDC, and a record with a non-empty IDS variant
Expandable(content) ==
    /\ Len(content) = 1
    /\ content[1] # "&"
    /\ \A m \in 1..Len(IDC_CHARS) : content[1] # IDC_CHARS[m]
    /\ \E i \in 1..Len(db) :
           db[i].char = content /\ (db[i].ids_1 # <<>> \/ db[i].ids_2 # <<>>)

\* C1: with maxDepth k >= 1, no entry of decompose(c, k, selector) belongs to a
\* tree node nested deeper than k below the root, for every table, cyclic or not
C1_DepthBound ==
    (call.op = "decompose" /\ call.max_depth >= 1) =>
        \A n \in 1..Len(ret) : EntryDepth(ret[n][1]) <= call.max_depth

\* C1 witness: a decomposition cut by the bound: maxDepth 2 on a cyclic table, with
\* an expandable component entry at exactly depth 2
C1_Witness ==
    /\ call.op = "decompose"
    /\ call.max_depth = 2
    /\ \E n \in 1..Len(ret) :
           EntryDepth(ret[n][1]) = 2 /\ HasBranch(ret[n][1]) /\ Expandable(ret[n][2])

\* C2: every node at exactly depth k that would otherwise expand further is rendered
\* as the "reached maximum depth" leaf (its content is the component followed by
\* the marker), never as a plain component entry
C2_MaxDepthLeafShown ==
    call.op = "decompose" =>
        \A n \in 1..Len(ret) :
            (EntryDepth(ret[n][1]) = call.max_depth /\ HasBranch(ret[n][1]))
                => ~Expandable(ret[n][2])

\* a call is running
Running == stack # <<>>

\* the call is over and its result is the value of the recursive definition
Finished ==
    /\ stack = <<>>
    /\ call.op = "decompose" => ret = decompose(call.arg, call.max_depth, call.variant_index)
    /\ call.op = "find_derived_characters"
           => ret = find_derived_characters(call.arg, call.charset)

\* C3: decompose(c, k, selector) and findDerived(c) terminate with a finite result
\* for every table, cyclic ones included: every running call reaches its return
C3_Terminates == Running ~> Finished

\* C3 witness: a decomposition to depth 2 of a character that is a component of
\* itself has returned, with entries at depth 2
C3_Witness ==
    /\ call.op = "decompose"
    /\ stack = <<>>
    /\ call.max_depth = 2
    /\ In_db(call.arg)
    /\ InStr(call.arg, db_get(call.arg).ids_1)
    /\ \E n \in 1..Len(ret) : EntryDepth(ret[n][1]) = 2

\* the stack of the stepped runs stays within max_depth + 1 activations of
\* _decompose_recursive, and MAX_DEPTH + 1 of process_component above
\* find_derived_characters
StackBound ==
    /\ call.op = "decompose" => Len(stack) <= call.max_depth + 1
    /\ call.op = "find_derived_characters" => Len(stack) <= MAX_DEPTH + 2

\* the non-empty IDS variants the selector picks at a record (section 4.3)
SelectedVariants(rec, selector) ==
    LET both == {rec.ids_1, rec.ids_2} \ {<<>>}
    IN  IF selector = -1 THEN both
        ELSE IF selector = 0
        THEN (IF rec.ids_1 # <<>> THEN {rec.ids_1} ELSE both)
        ELSE (IF rec.ids_2 # <<>> THEN {rec.ids_2} ELSE both)

\* an IDS string holds one of the 13 IDC symbols
HasIDC(ids) == \E i \in 1..Len(ids) : \E m \in 1..Len(IDC_CHARS) : ids[i] = IDC_CHARS[m]

\* c is a leaf for the selector: no record, no non-empty selected variant, or no
\* IDC symbol in the selected variants
IsLeafChar(c, selector) ==
    \A i \in 1..Len(db) :
        db[i].char = c => \A ids \in SelectedVariants(db[i], selector) : ~HasIDC(ids)

\* C4 as stated: for every maxDepth, decompose(c, maxDepth, selector) is the
\* one-leaf sequence [(empty prefix, c)] whenever c has no record, no non-empty
\* selected variant, or no IDC symbol in its selected variants
C4_LeafFallbackAnyDepth ==
    (call.op = "decompose" /\ IsLeafChar(call.arg, call.variant_index)) =>
        ret = << <<(<<>>), call.arg>> >>

\* C4: for every maxDepth >= 1 and every selector, decompose(c, maxDepth, selector)
\* is the one-leaf sequence [(empty prefix, c)] whenever c has no record, no
\* non-empty selected variant, or no IDC symbol in its selected variants; with
\* maxDepth 0 the depth test comes first and the root is the maximum-depth leaf
C4_LeafFallback ==
    (call.op = "decompose" /\ IsLeafChar(call.arg, call.variant_index)) =>
        IF call.max_depth >= 1
        THEN ret = << <<(<<>>), call.arg>> >>
        ELSE ret = MaxDepthLeaf(call.arg, 0)

\* C4 witness: a character whose selected variant is non-empty without an IDC, while
\* its other variant has one, decomposed to the single leaf
C4_Witness ==
    /\ call.op = "decompose"
    /\ call.max_depth >= 1
    /\ call.variant_index = 0
    /\ In_db(call.arg)
    /\ db_get(call.arg).ids_1 # <<>>
    /\ ~HasIDC(db_get(call.arg).ids_1)
    /\ HasIDC(db_get(call.arg).ids_2)
    /\ ret = << <<(<<>>), call.arg>> >>

(***************************************************************************)
(* Claims about resolve (get_data)                                         *)
(***************************************************************************)

HexDigitSet ==
    {"0", "1", "2", "3", "4", "5", "6", "7", "8", "9",
     "A", "B", "C", "D", "E", "F", "a", "b", "c", "d", "e", "f"}

\* a 4- or 5-digit hex string
IsHex45(h) == Len(h) \in {4, 5} /\ \A i \in 1..Len(h) : h[i] \in HexDigitSet

\* equality of two hex strings up to the case of the digits a-f
FoldHex(ch) ==
    CASE ch = "a" -> "A" [] ch = "b" -> "B" [] ch = "c" -> "C"
      [] ch = "d" -> "D" [] ch = "e" -> "E" [] ch = "f" -> "F" [] OTHER -> ch
SameHex(a, b) == Len(a) = Len(b) /\ \A i \in 1..Len(a) : FoldHex(a[i]) = FoldHex(b[i])

\* the result that holds exactly the record at position i of the table
Found(i) == << <<db[i].char, db[i]>> >>

\* the position of the first record in table order whose unicode field is h
FirstWithUnicode(h) ==
    CHOOSE i \in 1..Len(db) :
        SameHex(db[i].unicode, h) /\ \A j \in 1..(i - 1) : ~SameHex(db[j].unicode, h)

\* C5: for every record whose unicode field is a 4- or 5-digit hex string H, the
\* queries "U+"H, "u"H, "uni"H and H all return the first record in table order
\* whose unicode field equals H case-insensitively
C5_UnicodeSpellings ==
    call.op = "get_data" =>
        \A i \in 1..Len(db) :
            LET h == db[i].unicode
            IN  (IsHex45(h) /\ call.arg \in { <<"U", "+">> \o h, <<"u">> \o h,
                                             <<"u", "n", "i">> \o h, h })
                    => ret = Found(FirstWithUnicode(h))

\* C5 witness: "u672a" asked of a table holding 672A before 672a answers with the
\* earlier record
C5_Witness ==
    /\ call.op = "get_data"
    /\ call.arg = <<"u", "6", "7", "2", "a">>
    /\ Len(db) >= 2
    /\ db[1].unicode = <<"6", "7", "2", "A">>
    /\ db[2].unicode = <<"6", "7", "2", "a">>
    /\ ret = Found(1)

\* C6: a single character that is not a key of the table resolves to NotFound,
\* whatever the unicode fields of the records are
C6_SingleCharNotFound ==
    (call.op = "get_data" /\ Len(call.arg) = 1
        /\ \A i \in 1..Len(db) : db[i].char # call.arg)
            => ret = <<>>

\* Unicode notation as section 4.2 step 1 reads it
UnicodeNotation(s) ==
    \/ (Len(s) >= 2 /\ s[1] = "U" /\ s[2] = "+")
    \/ (Len(s) >= 1 /\ s[1] = "u")
    \/ IsHex45(s)

IsKey(ch) == \E i \in 1..Len(db) : db[i].char = <<ch>>

\* the result for the leftmost character of s that satisfies Pick, NotFound if none
LeftmostRecord(s, Pick(_)) ==
    IF \A n \in 1..Len(s) : ~Pick(s[n]) THEN <<>>
    ELSE LET n == CHOOSE n \in 1..Len(s) : Pick(s[n]) /\ \A m \in 1..(n - 1) : ~Pick(s[m])
         IN  Found(CHOOSE i \in 1..Len(db) : db[i].char = <<s[n]>>)

\* C7 as stated: a multi-character input that is not Unicode notation resolves to
\* the record of its leftmost character that is a key, NotFound if none is
C7_LeftmostKey ==
    (call.op = "get_data" /\ Len(call.arg) > 1 /\ ~UnicodeNotation(call.arg))
        => ret = LeftmostRecord(call.arg, IsKey)

IsNonSpaceKey(ch) == ch \notin {" ", "\t"} /\ IsKey(ch)

\* C7 amended: ... resolves to the record of its leftmost non-whitespace character
\* that is a key, NotFound if there is none; it never falls through to direct-key
\* or unicode-field matching
C7_LeftmostNonSpaceKey ==
    (call.op = "get_data" /\ Len(call.arg) > 1 /\ ~UnicodeNotation(call.arg))
        => ret = LeftmostRecord(call.arg, IsNonSpaceKey)

\* C7 witness: a two-character input whose characters are both keys, answered with
\* the record of the first
C7_Witness ==
    /\ call.op = "get_data"
    /\ call.arg = <<"lin", "mu">>
    /\ IsKey("lin") /\ IsKey("mu")
    /\ ret = Found(CHOOSE i \in 1..Len(db) : db[i].char = <<"lin">>)

(***************************************************************************)
(* Claims about findSisters                                                *)
(***************************************************************************)

IDCSet ==
    {"LR", "TB", "LCR", "TMB", "FULL", "SFA", "SFB", "SFL", "SUL", "SUR", "SLL", "OVL",
     "VAR"}

\* the record of a character of the table
RecordOf(c) == db[CHOOSE i \in 1..Len(db) : db[i].char = c]

\* the target IDS of section 4.4 for selector 0 or 1: the selected variant, the
\* other one when the selected one is empty
TargetIDS(c, selector) ==
    LET r == RecordOf(c)
    IN  IF selector = 1 THEN (IF r.ids_2 # <<>> THEN r.ids_2 ELSE r.ids_1)
        ELSE (IF r.ids_1 # <<>> THEN r.ids_1 ELSE r.ids_2)

IsComponentToken(tok) == ~(Len(tok) = 1 /\ tok[1] \in IDCSet)

\* targetComponents: the non-IDC tokens of an IDS, in order
NonIDCTokens(ids) == SelectSeq(split_special_chars(ids), IsComponentToken)

\* targetStructure: the IDC symbols of an IDS, in order
IsIDCSymbol(ch) == ch \in IDCSet
IDCStructure(ids) == SelectSeq(ids, IsIDCSymbol)

\* {"獨體字": {c: [c]}}
IndependentResult(c) == << <<INDEPENDENT, << <<c, <<c>>>> >> >> >>

IsSistersCall(selectors) ==
    /\ call.op = "find_sister_characters"
    /\ call.variant_index \in selectors
    /\ \E i \in 1..Len(db) : db[i].char = call.arg

GroupOf(result, cat, key) ==
    IF \E i \in 1..Len(result) :
           result[i][1] = cat /\ \E j \in 1..Len(result[i][2]) : result[i][2][j][1] = key
    THEN LET i == CHOOSE i \in 1..Len(result) : result[i][1] = cat
             j == CHOOSE j \in 1..Len(result[i][2]) : result[i][2][j][1] = key
         IN  ToSet(result[i][2][j][2])
    ELSE {}

\* the positions at which two component lists hold the same component
SharedPositions(ta, tb) ==
    {p \in 1..Len(ta) : p <= Len(tb) /\ ta[p] = tb[p]}

\* the key formed from the components at the shared positions, in position order
RECURSIVE KeyFrom(_, _, _)
KeyFrom(ta, P, p) ==
    IF p > Len(ta) THEN <<>>
    ELSE (IF p \in P THEN ta[p] ELSE <<>>) \o KeyFrom(ta, P, p + 1)

\* two IDS share their IDC structure and a component at the same position
ShareStructureAndPosition(ia, ib) ==
    /\ IDCStructure(ia) = IDCStructure(ib)
    /\ SharedPositions(NonIDCTokens(ia), NonIDCTokens(ib)) # {}

\* b is in a's "結構相同部件同位" group keyed by the shared components, or a in b's
\* (ra is the result of findSisters(a), the other result is computed)
OneInTheOthersGroup(a, b, ra) ==
    LET ta == NonIDCTokens(TargetIDS(a, 0))
        tb == NonIDCTokens(TargetIDS(b, 0))
        key == KeyFrom(ta, SharedPositions(ta, tb), 1)
    IN  \/ b \in GroupOf(ra, SAME_POSITION, key)
        \/ a \in GroupOf(find_sister_characters(b, NoCharset, 0), SAME_POSITION, key)

\* C9 as stated: two distinct characters of the table whose IDS share an identical
\* IDC structure and an identical component at the same position: findSisters
\* places at least one in the other's "結構相同部件同位" group under the shared key
\* (read for IDS that do hold an IDC symbol)
C9_SharedPositionFiled ==
    (IsSistersCall({0}) /\ call.charset.none) =>
        \A i \in 1..Len(db) :
            (db[i].char # call.arg
             /\ IDCStructure(TargetIDS(call.arg, 0)) # <<>>
             /\ ShareStructureAndPosition(TargetIDS(call.arg, 0), TargetIDS(db[i].char, 0)))
                => OneInTheOthersGroup(call.arg, db[i].char, ret)

\* C9 amended: ... whose IDS each have at least two non-IDC components and share an
\* identical IDC structure and an identical component at the same position ...
C9_SharedPositionFiledTwoComponents ==
    (IsSistersCall({0}) /\ call.charset.none) =>
        \A i \in 1..Len(db) :
            (db[i].char # call.arg
             /\ Len(NonIDCTokens(TargetIDS(call.arg, 0))) >= 2
             /\ Len(NonIDCTokens(TargetIDS(db[i].char, 0))) >= 2
             /\ ShareStructureAndPosition(TargetIDS(call.arg, 0), TargetIDS(db[i].char, 0)))
                => OneInTheOthersGroup(call.arg, db[i].char, ret)

\* C9 witness: ⿰木日 asked for, ⿰木月 in the table: the candidate is filed under 木
C9_Witness ==
    /\ IsSistersCall({0})
    /\ call.charset.none
    /\ call.arg = <<"mu">>
    /\ RecordOf(<<"mu">>).ids_1 = <<"LR", "mu", "ri">>
    /\ RecordOf(<<"lin">>).ids_1 = <<"LR", "mu", "yue">>
    /\ <<"lin">> \in GroupOf(ret, SAME_POSITION, <<"mu">>)

(***************************************************************************)
(* Claims about findDerived                                                *)
(***************************************************************************)

\* C10: no group of findDerived(c) contains c itself, for every table, character
\* and subset
C10_NotItsOwnDerived ==
    call.op = "find_derived_characters" =>
        \A k \in DOMAIN ret : \A n \in 1..Len(ret[k]) : ret[k][n] # call.arg

\* C10 witness: 木 = ⿰木木 is a component of itself and of a listed character, and is
\* inside the subset asked for
C10_Witness ==
    /\ call.op = "find_derived_characters"
    /\ call.arg = <<"mu">>
    /\ call.charset = Charset({<<"mu">>, <<"sen">>})
    /\ RecordOf(<<"mu">>).ids_1 = <<"LR", "mu", "mu">>
    /\ <<"mu">> \in DOMAIN ret
    /\ ret[<<"mu">>] = << <<"sen">> >>

\* x's direct components: the component entries of its one-level decomposition
DirectComponents(x) ==
    LET entries == decompose(x, 1, 0)
    IN  {entries[n][2] : n \in {n \in 1..Len(entries) : HasBranch(entries[n][1])}}

\* k is a direct component of x, or a direct component of one of them
ContainsWithinOneLevel(x, k) ==
    \/ k \in DirectComponents(x)
    \/ \E d \in DirectComponents(x) : k \in DirectComponents(d)

\* C11: every character x listed in the group of findDerived(c) keyed by k contains
\* k: k is one of x's direct components in its one-level decomposition, or one of
\* the direct components of one of x's direct components
C11_ListedContainsKey ==
    call.op = "find_derived_characters" =>
        \A k \in DOMAIN ret : \A n \in 1..Len(ret[k]) :
            ContainsWithinOneLevel(ret[k][n], k)

(***************************************************************************)
(* Claims about parse (parse_ids)                                          *)
(***************************************************************************)

IsWhitespace(ch) == ch \in {" ", "\t"}

IsNotWhitespace(ch) == ~IsWhitespace(ch)

HasWhitespace(tok) == \E i \in 1..Len(tok) : IsWhitespace(tok[i])

\* "&...;" up to the first ";"
IsEntityReference(tok) ==
    /\ Len(tok) >= 3
    /\ tok[1] = "&"
    /\ tok[Len(tok)] = ";"
    /\ \A i \in 2..(Len(tok) - 1) : tok[i] # ";"

\* an entity reference starts at position i of s
EntityStartsAt(s, i) ==
    /\ s[i] = "&"
    /\ i + 1 <= Len(s) /\ s[i + 1] # ";"
    /\ \E j \in (i + 2)..Len(s) : s[j] = ";"

\* the tokens are, left to right, the entity references, IDC symbols and other
\* non-whitespace characters of s from position i on: nothing but whitespace is
\* passed over, and a reference is never split
RECURSIVE Tiles(_, _, _)
Tiles(tokens, s, i) ==
    IF i > Len(s) THEN tokens = <<>>
    ELSE IF IsWhitespace(s[i]) THEN Tiles(tokens, s, i + 1)
    ELSE /\ tokens # <<>>
         /\ LET tok == tokens[1]
            IN  /\ i + Len(tok) - 1 <= Len(s)
                /\ tok = SubSeq(s, i, i + Len(tok) - 1)
                /\ IF EntityStartsAt(s, i) THEN IsEntityReference(tok) ELSE Len(tok) = 1
                /\ Tiles(Tail(tokens), s, i + Len(tok))

\* the strings parsed by the last call, each with its token list
ParsedPairs ==
    IF call.op = "parse_ids" THEN { <<call.arg, ret[1]>> }
    ELSE IF call.op = "parse_ids_list" THEN { <<call.arg[n], ret[n]>> : n \in 1..Len(call.arg) }
    ELSE {}

ParseShape ==
    /\ call.op = "parse_ids" => Len(ret) = 1
    /\ call.op = "parse_ids_list" => Len(ret) = Len(call.arg)

\* C12 as stated: every entity reference, IDC symbol and other non-whitespace
\* character is one token, no whitespace is a token or inside a token, and the
\* concatenation of the tokens is the input with its whitespace removed
C12_TokensAreInputWithoutWhitespace ==
    /\ ParseShape
    /\ \A p \in ParsedPairs :
           /\ Tiles(p[2], p[1], 1)
           /\ \A n \in 1..Len(p[2]) : ~HasWhitespace(p[2][n])
           /\ Join(p[2]) = SelectSeq(p[1], IsNotWhitespace)

\* C12 amended: ... no whitespace is emitted as a token or inside a token other than
\* an entity reference, which keeps the whitespace between its "&" and ";"; the
\* tokens are the input with the whitespace outside entity references removed
C12_TokensTileInput ==
    /\ ParseShape
    /\ \A p \in ParsedPairs :
           /\ Tiles(p[2], p[1], 1)
           /\ \A n \in 1..Len(p[2]) : HasWhitespace(p[2][n]) => IsEntityReference(p[2][n])

\* C12 witness: " &木;" parsed to the single entity token, the leading space dropped
C12_Witness ==
    /\ call.op = "parse_ids"
    /\ call.arg = <<" ", "&", "mu", ";">>
    /\ ret = << << <<"&", "mu", ";">> >> >>

(***************************************************************************)
(* Claims about the text helpers                                           *)
(***************************************************************************)

\* the content is the "reached maximum depth" placeholder
IsDepthMarker(content) ==
    InStr(<<"da2", "dao", "zui", "da4", "shen", "du4">>, content)

\* the tree-drawing glyphs and the whitespace the extraction removes
IsTreeGlyphOrSpace(ch) == ch \in {"bar", "tee", "corner", " ", "\t"}

Observed(q, r) == IF q.op = "find_derived_characters" THEN AsMapping(r) ELSE r

\* C14: a query asked twice with the same arguments on the same table returns the
\* same result both times, with the same group keys and the same order of
\* characters inside every group
C14_SameResultTwice ==
    (call.op # "init" /\ out # <<>>) => Observed(call, out[1]) = Observed(call, ret)

\* the second find_derived_characters iterated its sets in another order than the
\* first: the two dicts were filled in different key orders
C14_Witness ==
    /\ call.op = "find_derived_characters"
    /\ out # <<>>
    /\ Len(ret) = 2
    /\ ret[1] = out[1][2]
    /\ ret[2] = out[1][1]

(***************************************************************************)
(* Claims about the table                                                  *)
(***************************************************************************)

\* C15: no query changes the table: its keys and every record's unicode, ids_1 and
\* ids_2 are after each call what they were before it
C15_TableUnchanged == [][db' = db]_vars

\* a query for a character that is not a key has been answered and the caller holds
\* the answer
C15_Witness ==
    /\ call.op = "get_ids_variants"
    /\ call.arg = <<"ri">>
    /\ ~In_db(call.arg)
    /\ ret = <<>>

(***************************************************************************)
(* Claims about construction                                               *)
(***************************************************************************)

\* the constructor has returned or raised
Constructed == call.op = "__init__" /\ stack = <<>> /\ ret # <<>>

\* the file at data_path is one the claim says is refused
Refused ==
    \/ ~out.exists
    \/ out.gzip # "ok"
    \/ out.pickle # "ok"
    \/ ~out.payload.mapping

\* the table holds one record for every entry of the payload, in the payload's
\* order: the entry's key as char, and each field the entry's or '' when it has none
OneRecordPerEntry ==
    /\ Len(db) = Len(out.payload.entries)
    /\ \A n \in 1..Len(db) :
        LET key == out.payload.entries[n][1]
            fields == out.payload.entries[n][2].fields
        IN  /\ db[n].char = key
            /\ \A name \in {"unicode", "ids_1", "ids_2"} :
                 LET stored == IF name = "unicode" THEN db[n].unicode
                               ELSE IF name = "ids_1" THEN db[n].ids_1 ELSE db[n].ids_2
                 IN  IF name \in DOMAIN fields THEN stored = fields[name]
                     ELSE stored = <<>>

\* C16: a constructor call ends with an engine whose table holds one converted
\* record for every entry of the payload, or with an error; it ends with an error
\* when the path does not exist, the file is not gzip, the payload cannot be
\* deserialized or is not a mapping; no table is assigned unless the engine is
\* returned
C16_TableOrError ==
    /\ Constructed =>
         /\ ret.instance \/ ret.raised # "none"
         /\ ret.instance => ~Refused /\ OneRecordPerEntry
         /\ Refused => ~ret.instance /\ ret.raised # "none"
    /\ (call.op = "__init__" /\ (ret = <<>> \/ ~ret.instance)) => db = <<>>

\* two entries, the first converted, the second no mapping: the constructor raised
\* and the record already converted is not in any table
C16_Witness ==
    /\ Constructed
    /\ Len(out.payload.entries) = 2
    /\ out.payload.entries[1][2].mapping
    /\ ~out.payload.entries[2][2].mapping
    /\ ret = Raised("RuntimeError")
    /\ db = <<>>

(***************************************************************************)
(* Claims about the generator                                              *)
(***************************************************************************)

\* the calls made for a code point
CallsFor(unicode_val) == { h \in visited : h.unicode_val = unicode_val }

\* the first of a set of calls
FirstCall(calls) == CHOOSE h \in calls : \A g \in calls : h.n <= g.n

\* the calls for a code point whose expression differs from the first one's
Differing(unicode_val) ==
    { h \in CallsFor(unicode_val) :
        h.ids_expression # FirstCall(CallsFor(unicode_val)).ids_expression }

\* C17: after any calls of _add_ids_record with non-empty expressions, every record
\* has ids_1 set, to the first expression seen for its code point; ids_2 is unset or
\* differs from ids_1, and is the first later expression that differs from ids_1;
\* later calls overwrite neither
C17_FirstAndFirstDiffering ==
    call.op = "_add_ids_record" =>
        /\ \A u \in UnicodeValsG : DictHas(out, u) <=> CallsFor(u) # {}
        /\ \A i \in 1..Len(out) :
            LET u == out[i][1]
                record == out[i][2]
            IN  /\ record.unicode = u
                /\ record.ids_1 # NoneValue
                /\ record.ids_1 = FirstCall(CallsFor(u)).ids_expression
                /\ record.ids_2 # record.ids_1
                /\ IF Differing(u) = {} THEN record.ids_2 = NoneValue
                   ELSE record.ids_2 = FirstCall(Differing(u)).ids_expression

\* a code point was given a, a, b, c in this order: ids_1 is a, ids_2 is b
C17_Witness ==
    /\ Cardinality(CallsFor(<<"6", "7", "2", "8">>)) = 4
    /\ \E h \in visited : h.n = 1 /\ h.ids_expression = <<"mu">>
    /\ \E h \in visited : h.n = 2 /\ h.ids_expression = <<"mu">>
    /\ \E h \in visited : h.n = 3 /\ h.ids_expression = <<"LR", "mu", "ri">>
    /\ \E h \in visited : h.n = 4 /\ h.ids_expression = <<"TB", "ri", "mu">>
    /\ ids_data_get(out, <<"6", "7", "2", "8">>).ids_1 = <<"mu">>
    /\ ids_data_get(out, <<"6", "7", "2", "8">>).ids_2 = <<"LR", "mu", "ri">>

(***************************************************************************)
(* Claims about the checks of a text                                       *)
(***************************************************************************)

\* the marker substrings: not found, unknown character, search failed, cannot,
\* error, reached maximum depth
Markers ==
    { <<"wei", "zhao", "dao">>,
      <<"wei", "zhi", "zi", "fu">>,
      <<"sou", "xun", "shi", "bai">>,
      <<"wu2", "fa">>,
      <<"cuo", "wu4">>,
      <<"da2", "dao", "zui", "da4", "shen", "du4">> }

\* the text has a marker at some position
HoldsMarker(text) ==
    \E marker \in Markers : \E i \in 1..Len(text) :
        /\ i + Len(marker) - 1 <= Len(text)
        /\ SubSeq(text, i, i + Len(marker) - 1) = marker

\* empty or whitespace only
IsBlank(text) == \A i \in 1..Len(text) : text[i] \in {" ", "\t"}

\* C18: is_error_message(s) is true exactly when s is empty, whitespace only, or
\* holds one of the marker substrings; is_valid_character(s) is false whenever
\* is_error_message(s) is true
C18_ErrorIffBlankOrMarker ==
    /\ call.op = "is_error_message" =>
         (ret <=> (IsBlank(call.arg) \/ HoldsMarker(call.arg)))
    /\ call.op = "is_valid_character" =>
         ((IsBlank(call.arg) \/ HoldsMarker(call.arg)) => ret = FALSE)

\* a text that is not blank and holds "cannot" between other characters is an
\* error message
C18_Witness ==
    /\ call.op = "is_error_message"
    /\ call.arg = <<"mu", "wu2", "fa">>
    /\ ret = TRUE

(***************************************************************************)
(* Claims about the generator's file and the engine                        *)
(***************************************************************************)

\* the loader raises on nothing in the file
Accepted(file) ==
    /\ file.exists
    /\ file.gzip = "ok"
    /\ file.pickle = "ok"
    /\ file.payload.mapping
    /\ \A n \in 1..Len(file.payload.entries) : file.payload.entries[n][2].mapping

\* every record of the table is the entry the generator wrote under its key, with
\* the key as char
LoadedAsStored ==
    /\ Len(db) = Len(out.payload.entries)
    /\ \A n \in 1..Len(db) :
        /\ DOMAIN out.payload.entries[n][2].fields = {"unicode", "ids_1", "ids_2"}
        /\ db[n].char = out.payload.entries[n][1]
        /\ db[n].unicode = out.payload.entries[n][2].fields["unicode"]
        /\ db[n].ids_1 = out.payload.entries[n][2].fields["ids_1"]
        /\ db[n].ids_2 = out.payload.entries[n][2].fields["ids_2"]

\* an answer as far as it depends on variants: get_data by the key it found (the
\* record it returns is the loaded one), find_derived_characters as a mapping
ObservedAnswer(q, r) ==
    IF q.op = "get_data" THEN [i \in 1..Len(r) |-> r[i][1]]
    ELSE Observed(q, r)

\* C19: the file _save_pdata writes is accepted by the loader; every loaded record
\* has the unicode, ids_1 and ids_2 the generator stored under its key, and its key
\* as char; every query answers as it does when the unset variants are absent
C19_LoadedAndUnsetAbsent ==
    /\ call.op # "build" => Accepted(out)
    /\ (call.op = "__init__" /\ stack = <<>> /\ ret # <<>>) =>
         ret = Instance /\ LoadedAsStored
    /\ (call.op \in QueryOps /\ visited # {} /\ stack = <<>>) =>
         \A first \in visited : ObservedAnswer(call, first) = ObservedAnswer(call, ret)

\* the second variant of a character was left unset; decompose asked for the second
\* variant falls back on the first, with and without the None in the table
C19_Witness ==
    /\ call.op = "decompose"
    /\ call.arg = <<"mu">>
    /\ call.variant_index = 1
    /\ visited # {}
    /\ stack = <<>>
    /\ \E n \in 1..Len(out.payload.entries) :
         /\ out.payload.entries[n][1] = <<"mu">>
         /\ "ids_2" \notin DOMAIN out.payload.entries[n][2].fields
         /\ "ids_1" \in DOMAIN out.payload.entries[n][2].fields
    /\ Len(ret) > 1

(***************************************************************************)
(* Claims about the categories of find_sister_characters                   *)
(***************************************************************************)

\* the characters a category of a single-variant result lists, under any key
ListedUnder(result, cat) ==
    UNION { UNION { ToSet(result[i][2][j][2]) : j \in 1..Len(result[i][2]) } :
              i \in { i \in 1..Len(result) : result[i][1] = cat } }

\* the variants of a record, ids_1 first
VariantsOf(r) ==
    (IF r.ids_1 # <<>> THEN <<r.ids_1>> ELSE <<>>)
    \o (IF r.ids_2 # <<>> THEN <<r.ids_2>> ELSE <<>>)

\* the component sets of two IDS intersect
ComponentsIntersect(ia, ib) ==
    ToSet(NonIDCTokens(ia)) \cap ToSet(NonIDCTokens(ib)) # {}

\* a non-atomic variant that meets one of the three conditions against the target
\* (a shared position is a shared component)
MeetsACondition(target, ids) ==
    /\ Len(NonIDCTokens(ids)) >= 2
    /\ ComponentsIntersect(target, ids)

\* the category whose condition a variant meets
CategoryOf(target, ids) ==
    IF IDCStructure(ids) = IDCStructure(target)
    THEN (IF SharedPositions(NonIDCTokens(target), NonIDCTokens(ids)) # {}
          THEN SAME_POSITION ELSE SAME_STRUCTURE)
    ELSE SHARED_ONLY

\* C20: in a single-variant result for a target of two or more components, a
\* candidate is listed under exactly the category whose condition its filing variant
\* (its first non-atomic variant that meets a condition) meets: same structure and a
\* shared position, same structure and shared components without a shared position,
\* or another structure and shared components; a candidate with no such variant,
\* the target itself and a character outside the subset are listed nowhere
C20_CategoryIffCondition ==
    (IsSistersCall({0, 1})
        /\ Len(NonIDCTokens(TargetIDS(call.arg, call.variant_index))) >= 2) =>
        \A i \in 1..Len(db) :
            LET c == db[i].char
                target == TargetIDS(call.arg, call.variant_index)
                variants == VariantsOf(db[i])
                filing == { n \in 1..Len(variants) : MeetsACondition(target, variants[n]) }
                candidate == c # call.arg /\ (call.charset.none \/ c \in call.charset.chars)
            IN  \A cat \in {SAME_POSITION, SAME_STRUCTURE, SHARED_ONLY} :
                    c \in ListedUnder(ret, cat) <=>
                        /\ candidate
                        /\ filing # {}
                        /\ cat = CategoryOf(target,
                                            variants[CHOOSE n \in filing :
                                                        \A k \in filing : n <= k])

\* the first variant of a candidate is non-atomic and shares nothing with the
\* target; its second variant has the target's structure and first component, and
\* files it
C20_Witness ==
    /\ IsSistersCall({0})
    /\ call.arg = <<"sen">>
    /\ RecordOf(<<"sen">>).ids_1 = <<"LR", "mu", "ri">>
    /\ RecordOf(<<"mu">>).ids_1 = <<"LR", "yue", "yue">>
    /\ RecordOf(<<"mu">>).ids_2 = <<"LR", "mu", "yue">>
    /\ <<"mu">> \in ListedUnder(ret, SAME_POSITION)
    /\ RecordOf(<<"lin">>).ids_1 = <<"TB", "mu", "ri">>
    /\ <<"lin">> \in ListedUnder(ret, SHARED_ONLY)

(***************************************************************************)
(* Claims about the filing of a candidate by find_sister_characters        *)
(***************************************************************************)

\* the places (category, group, position in the list) where a single-variant result
\* lists the character c
PlacesOf(result, c) ==
    { p \in UNION { UNION { { <<i, j, n>> : n \in 1..Len(result[i][2][j][2]) } :
                              j \in 1..Len(result[i][2]) } : i \in 1..Len(result) } :
          result[p[1]][2][p[2]][2][p[3]] = c }

\* the key of the group a variant files a candidate under: the components at the
\* shared positions in position order, or the shared components in sorted order
KeyOf(target, ids) ==
    LET ta == NonIDCTokens(target)
        tb == NonIDCTokens(ids)
    IN  IF CategoryOf(target, ids) = SAME_POSITION
        THEN KeyFrom(ta, SharedPositions(ta, tb), 1)
        ELSE Join(Sorted(ToSet(ta) \cap ToSet(tb)))

\* C21: in the result of a single-variant findSisters call for a target of two or
\* more components, every character of the table is listed at most once across all
\* categories and groups, and the one place is the category and group of the first
\* of its variants (ids_1 before ids_2) that produces a match
C21_FiledOnceByFirstMatch ==
    (IsSistersCall({0, 1})
        /\ Len(NonIDCTokens(TargetIDS(call.arg, call.variant_index))) >= 2) =>
        \A i \in 1..Len(db) :
            LET c == db[i].char
                target == TargetIDS(call.arg, call.variant_index)
                variants == VariantsOf(db[i])
                filing == { n \in 1..Len(variants) : MeetsACondition(target, variants[n]) }
                places == PlacesOf(ret, c)
            IN  /\ Cardinality(places) <= 1
                /\ \A p \in places :
                       /\ filing # {}
                       /\ LET v == variants[CHOOSE n \in filing : \A k \in filing : n <= k]
                          IN  /\ ret[p[1]][1] = CategoryOf(target, v)
                              /\ ret[p[1]][2][p[2]][1] = KeyOf(target, v)

\* C21 witness: both variants of a candidate match the target, in different
\* categories; the candidate is listed once, under its first variant's group
C21_Witness ==
    /\ IsSistersCall({0})
    /\ call.arg = <<"sen">>
    /\ call.charset.none
    /\ RecordOf(<<"sen">>).ids_1 = <<"LR", "mu", "ri">>
    /\ RecordOf(<<"lin">>).ids_1 = <<"LR", "mu", "yue">>
    /\ RecordOf(<<"lin">>).ids_2 = <<"TB", "ri", "mu">>
    /\ <<"lin">> \in GroupOf(ret, SAME_POSITION, <<"mu">>)
    /\ Cardinality(PlacesOf(ret, <<"lin">>)) = 1

(***************************************************************************)
(* Claims about find_sister_characters with both variants                  *)
(***************************************************************************)

\* the sub-result computed from variant n (1 or 2) of the character asked for
SubResult(n) ==
    find_sister_by_ids(call.arg,
                       IF n = 1 THEN RecordOf(call.arg).ids_1 ELSE RecordOf(call.arg).ids_2,
                       call.charset)

\* a result is the atomic singleton of the character asked for
IsAtomic(result) == result = IndependentResult(call.arg)

AtomicVariant(n) ==
    LET ids == IF n = 1 THEN RecordOf(call.arg).ids_1 ELSE RecordOf(call.arg).ids_2
    IN  ids # <<>> /\ Len(NonIDCTokens(ids)) <= 1

\* what the single-variant call computes from variant n alone: nothing from an empty
\* variant, findSisters with the selector of that variant otherwise
FromVariantAlone(n) ==
    LET ids == IF n = 1 THEN RecordOf(call.arg).ids_1 ELSE RecordOf(call.arg).ids_2
    IN  IF ids = <<>> THEN <<>>
        ELSE find_sister_characters(call.arg, call.charset, n - 1)

\* C23: for findSisters(c, -1) when neither variant gives the atomic singleton, the
\* result has exactly the two top-level keys "拆法1結果" and "拆法2結果", in that
\* order, and their values are the results computed from ids_1 alone and from ids_2
\* alone: a character both list stays in both
C23_BothResultsWrapped ==
    (IsSistersCall({-1}) /\ ~AtomicVariant(1) /\ ~AtomicVariant(2)) =>
        /\ Len(ret) = 2
        /\ ret[1][1] = VARIANT_1_RESULT
        /\ ret[2][1] = VARIANT_2_RESULT
        /\ ret[1][2] = FromVariantAlone(1)
        /\ ret[2][2] = FromVariantAlone(2)

\* C23 witness: the two variants differ in structure and share their components
\* with a candidate, which both halves of the result list
C23_Witness ==
    /\ IsSistersCall({-1})
    /\ call.arg = <<"lin">>
    /\ call.charset.none
    /\ RecordOf(<<"lin">>).ids_1 = <<"LR", "mu", "ri">>
    /\ RecordOf(<<"lin">>).ids_2 = <<"TB", "ri", "mu">>
    /\ RecordOf(<<"sen">>).ids_1 = <<"LR", "mu", "ri">>
    /\ Len(ret) = 2
    /\ <<"sen">> \in ListedUnder(ret[1][2], SAME_POSITION)
    /\ <<"sen">> \in ListedUnder(ret[2][2], SHARED_ONLY)

(***************************************************************************)
(* Claims about the completeness of find_derived_characters                *)
(***************************************************************************)

\* x is listed in the group of the result keyed by k
IsListedUnder(x, k) == k \in DOMAIN ret /\ \E n \in 1..Len(ret[k]) : ret[k][n] = x

\* C24: for every character x of the table other than t (and inside the subset
\* when one is given) and every direct component k of x's one-level decomposition:
\* if k is in decomposedParts(t), x is listed in the group keyed by k; if it is not
\* but one of its own direct components k2 is, x is listed in the group keyed by
\* k2; in particular every x that has t as a direct component is listed under t
C24_DerivedComplete ==
    call.op = "find_derived_characters" =>
        \A i \in 1..Len(db) :
            LET x == db[i].char
            IN  (x # call.arg /\ (call.charset.none \/ x \in call.charset.chars)) =>
                    /\ \A k \in DirectComponents(x) :
                           IF k \in decomposed_parts(call.arg)
                           THEN IsListedUnder(x, k)
                           ELSE \A k2 \in DirectComponents(k) :
                                    k2 \in decomposed_parts(call.arg) => IsListedUnder(x, k2)
                    /\ call.arg \in DirectComponents(x) => IsListedUnder(x, call.arg)

\* C24 witness: 日 asked for; 木 = ⿱日月 has it as a direct component, 林 = ⿰木木
\* has it one level further down: both are listed under 日
C24_Witness ==
    /\ call.op = "find_derived_characters"
    /\ call.arg = <<"ri">>
    /\ call.charset.none
    /\ RecordOf(<<"mu">>).ids_1 = <<"TB", "ri", "yue">>
    /\ RecordOf(<<"lin">>).ids_1 = <<"LR", "mu", "mu">>
    /\ <<"mu">> \notin decomposed_parts(<<"ri">>)
    /\ IsListedUnder(<<"mu">>, <<"ri">>)
    /\ IsListedUnder(<<"lin">>, <<"ri">>)

(***************************************************************************)
(* Claims about the variants decompose renders                             *)
(***************************************************************************)

\* entry n of the result is a node: the root or a branch entry
IsNodeEntry(n) == n = 1 \/ HasBranch(ret[n][1])

\* the level at which the node of entry n renders its own variants
NodeLevel(n) == IF n = 1 THEN 0 ELSE IndentUnits(ret[n][1]) + 1

\* the node of entry n is expanded: the next entry is its structure line
Opens(n) ==
    /\ IsNodeEntry(n)
    /\ n < Len(ret)
    /\ ~HasBranch(ret[n + 1][1])
    /\ IndentUnits(ret[n + 1][1]) = NodeLevel(n)

\* the first position from m on whose entry lies above the level, past the end of
\* the result when there is none
RECURSIVE SpanEndFrom(_, _)
SpanEndFrom(m, level) ==
    IF m > Len(ret) THEN m
    ELSE IF IndentUnits(ret[m][1]) < level THEN m
    ELSE SpanEndFrom(m + 1, level)

\* the entries below the node of entry n: up to the next entry of a lower level
SpanOf(n) == SubSeq(ret, n + 1, SpanEndFrom(n + 1, NodeLevel(n)) - 1)

\* the branch entries of a span at a level
BranchEntriesOf(span, level) ==
    LET AtLevel(e) == HasBranch(e[1]) /\ IndentUnits(e[1]) = level
    IN  SelectSeq(span, AtLevel)

\* the contents of a sequence of entries
ContentsOf(entries) == [j \in 1..Len(entries) |-> entries[j][2]]

\* no record of the table has both variants
SingleVariantTable == \A i \in 1..Len(db) : db[i].ids_1 = <<>> \/ db[i].ids_2 = <<>>

\* C25: at every expanded node, selector 0 renders ids_1, and ids_2 only when ids_1
\* is empty, selector 1 renders ids_2, and ids_1 only when ids_2 is empty: the
\* structure line is the first symbol of that variant and the branch entries are
\* its other tokens in order; on a table in which no character has both variants
\* decompose(c, k, 0), decompose(c, k, 1) and decompose(c, k, -1) are equal
C25_SelectorFallback ==
    call.op = "decompose" =>
        /\ call.variant_index \in {0, 1} =>
               \A n \in 1..Len(ret) :
                   Opens(n) =>
                       LET ids == TargetIDS(ret[n][2], call.variant_index)
                       IN  /\ ret[n + 1][2] = <<ids[1]>>
                           /\ ContentsOf(BranchEntriesOf(SpanOf(n), NodeLevel(n)))
                                  = Tail(split_special_chars(ids))
        /\ SingleVariantTable =>
               \A v \in Selectors : ret = decompose(call.arg, call.max_depth, v)

\* C25 witness: selector 1 on a root without ids_2 renders its ids_1, and below it a
\* component with both variants renders its ids_2
C25_Witness ==
    /\ call.op = "decompose"
    /\ call.variant_index = 1
    /\ call.arg = <<"lin">>
    /\ RecordOf(<<"lin">>).ids_1 = <<"LR", "mu", "lin">>
    /\ RecordOf(<<"lin">>).ids_2 = <<>>
    /\ RecordOf(<<"mu">>).ids_1 = <<"TB", "lin", "ri">>
    /\ RecordOf(<<"mu">>).ids_2 = <<"LR", "&", "e", ";", "mu">>
    /\ Opens(1)
    /\ ret[2][2] = <<"LR">>
    /\ \E n \in 2..Len(ret) :
           /\ Opens(n)
           /\ ret[n][2] = <<"mu">>
           /\ ContentsOf(BranchEntriesOf(SpanOf(n), NodeLevel(n)))
                  = << <<"&", "e", ";">>, <<"mu">> >>

\* the positions in a span of the entries at a level that carry no branch glyph:
\* the structure lines and the separators of the node, in order
LinePositionsOf(span, level) ==
    LET P == { m \in 1..Len(span) :
                   ~HasBranch(span[m][1]) /\ IndentUnits(span[m][1]) = level }
    IN  [j \in 1..Cardinality(P) |->
            CHOOSE m \in P : Cardinality({x \in P : x < m}) = j - 1]

\* C26: with selector -1, at an expanded node that has two non-empty variants, the
\* rendering of ids_1 comes first, then exactly one separator entry (content "或",
\* the node's indent and no branch glyph), then the rendering of ids_2, and nothing
\* follows the rendering of ids_2; a node with one variant has no separator; with
\* selector 0 or 1 no separator entry is emitted at all
C26_OneSeparatorBetweenVariants ==
    call.op = "decompose" =>
        /\ call.variant_index = -1 =>
               \A n \in 1..Len(ret) :
                   Opens(n) =>
                       LET r == RecordOf(ret[n][2])
                           level == NodeLevel(n)
                           span == SpanOf(n)
                           lines == LinePositionsOf(span, level)
                           indent == Repeat(INDENT, level)
                       IN  IF r.ids_1 # <<>> /\ r.ids_2 # <<>>
                           THEN /\ Len(lines) = 3
                                /\ span[lines[1]] = <<indent, <<r.ids_1[1]>> >>
                                /\ ContentsOf(BranchEntriesOf(
                                       SubSeq(span, lines[1] + 1, lines[2] - 1), level))
                                       = Tail(split_special_chars(r.ids_1))
                                /\ span[lines[2]] = <<indent, OR_MARK>>
                                /\ span[lines[3]] = <<indent, <<r.ids_2[1]>> >>
                                /\ ContentsOf(BranchEntriesOf(
                                       SubSeq(span, lines[3] + 1, Len(span)), level))
                                       = Tail(split_special_chars(r.ids_2))
                           ELSE /\ Len(lines) = 1
                                /\ span[lines[1]][2] # OR_MARK
        /\ call.variant_index \in {0, 1} =>
               \A n \in 2..Len(ret) : ~(ret[n][2] = OR_MARK /\ ~HasBranch(ret[n][1]))

\* the separators among the lines of a span at a level
SeparatorsOf(span, level) ==
    LET IsSeparator(e) == e = <<Repeat(INDENT, level), OR_MARK>>
    IN  SelectSeq(span, IsSeparator)

\* C26 witness: selector -1 on a character with two variants that is a component of
\* itself: one separator at the root's level and one at the level below
C26_Witness ==
    /\ call.op = "decompose"
    /\ call.variant_index = -1
    /\ call.arg = <<"lin">>
    /\ RecordOf(<<"lin">>).ids_1 = <<"LR", "mu", "lin">>
    /\ RecordOf(<<"lin">>).ids_2 = <<"TB", "lin", "ri">>
    /\ Opens(1)
    /\ Len(SeparatorsOf(SpanOf(1), 0)) = 1
    /\ \E n \in 2..Len(ret) :
           /\ Opens(n)
           /\ NodeLevel(n) = 1
           /\ Len(SeparatorsOf(SpanOf(n), 1)) = 1

\* the variants an expanded node renders for the selector of the call, in order
RenderedVariants(c) ==
    IF call.variant_index = -1 THEN VariantsOf(RecordOf(c))
    ELSE <<TargetIDS(c, call.variant_index)>>

\* the part of a span that renders variant v (1 or 2) of its node: after its
\* structure line, up to the separator or to the end of the span
SegmentOf(span, lines, v) ==
    IF v = 1
    THEN SubSeq(span, lines[1] + 1, (IF Len(lines) > 1 THEN lines[2] ELSE Len(span) + 1) - 1)
    ELSE SubSeq(span, lines[3] + 1, Len(span))

\* C27: where decompose expands a variant whose tokens are [idc, t1, ..., tn], the
\* result holds at that node's level, in token order, exactly one branch entry per
\* component: t1..t(n-1) with the node's indent and "├─ ", tn with the node's
\* indent and "└─ "; the entry after a component is never that component's own
\* root marker
C27_OneBranchEntryPerComponent ==
    call.op = "decompose" =>
        /\ \A n \in 1..Len(ret) :
               Opens(n) =>
                   LET variants == RenderedVariants(ret[n][2])
                       level == NodeLevel(n)
                       span == SpanOf(n)
                       lines == LinePositionsOf(span, level)
                       indent == Repeat(INDENT, level)
                   IN  /\ Len(lines) = 2 * Len(variants) - 1
                       /\ \A v \in 1..Len(variants) :
                              LET at == BranchEntriesOf(SegmentOf(span, lines, v), level)
                                  t == Tail(split_special_chars(variants[v]))
                              IN  /\ Len(at) = Len(t)
                                  /\ \A j \in 1..Len(t) :
                                         at[j] = <<indent \o (IF j = Len(t) THEN LAST_BRANCH
                                                              ELSE MID_BRANCH), t[j]>>
        /\ \A m \in 2..Len(ret) :
               (HasBranch(ret[m][1]) /\ m < Len(ret)) =>
                   ret[m + 1] # <<(<<>>), ret[m][2]>>

\* C27 witness: ⿰木林 with 木 = ⿱林日 to depth 2: 木 with the mid glyph followed by
\* its own structure line and two indented branch entries, 林 with the terminal glyph
C27_Witness ==
    /\ call.op = "decompose"
    /\ call.variant_index = 0
    /\ call.max_depth = 2
    /\ call.arg = <<"lin">>
    /\ RecordOf(<<"lin">>).ids_1 = <<"LR", "mu", "lin">>
    /\ RecordOf(<<"mu">>).ids_1 = <<"TB", "lin", "ri">>
    /\ Len(ret) >= 7
    /\ ret[3] = <<MID_BRANCH, <<"mu">> >>
    /\ ret[4] = <<INDENT, <<"TB">> >>
    /\ ret[5] = <<INDENT \o MID_BRANCH, <<"lin">> >>
    /\ ret[6] = <<INDENT \o LAST_BRANCH, <<"ri">> >>
    /\ ret[7] = <<LAST_BRANCH, <<"lin">> >>

(***************************************************************************)
(* Claims about the spellings of a Unicode query                           *)
(***************************************************************************)

\* the query is the prefix p followed by a spelling of h in either case of its digits
SpelledWith(P, h) ==
    \E p \in P :
        /\ Len(call.arg) = Len(p) + Len(h)
        /\ SubSeq(call.arg, 1, Len(p)) = p
        /\ SameHex(SubSeq(call.arg, Len(p) + 1, Len(call.arg)), h)

\* C28 as stated: for a record whose unicode field is H, the queries "UNI"H, "Uni"H
\* and "u+"H return the same record as "uni"H and "U+"H, the hex digits of H in
\* either case
C28_PrefixInAnyCase ==
    call.op = "get_data" =>
        \A i \in 1..Len(db) :
            LET h == db[i].unicode
            IN  (IsHex45(h)
                 /\ SpelledWith({ <<"U", "N", "I">>, <<"U", "n", "i">>, <<"u", "+">>,
                                  <<"u", "n", "i">>, <<"U", "+">> }, h))
                    => ret = Found(FirstWithUnicode(h))

\* C28 amended: for a record whose unicode field is H, the queries "U+"H and every
\* query that starts with a lower-case u ("u+"H, "uni"H, "uNI"H, "u"H) return the
\* first record whose unicode field is H, the hex digits in either case; "UNI"H and
\* "Uni"H start with neither "U+" nor "u" and are read as a list of characters:
\* the record of their leftmost character that is a key, NotFound if none is
C28_PrefixAfterLowerU ==
    call.op = "get_data" =>
        \A i \in 1..Len(db) :
            LET h == db[i].unicode
            IN  /\ (IsHex45(h)
                    /\ SpelledWith({ <<"U", "+">>, <<"u", "+">>, <<"u", "n", "i">>,
                                     <<"u", "N", "I">>, <<"u">> }, h))
                       => ret = Found(FirstWithUnicode(h))
                /\ (IsHex45(h)
                    /\ SpelledWith({ <<"U", "N", "I">>, <<"U", "n", "i">> }, h))
                       => ret = LeftmostRecord(call.arg, IsNonSpaceKey)

\* C28 witness: "uNI672a" asked of a table whose first record has the unicode field
\* 672A: the record is found
C28_Witness ==
    /\ call.op = "get_data"
    /\ call.arg = <<"u", "N", "I", "6", "7", "2", "a">>
    /\ db[1].unicode = <<"6", "7", "2", "A">>
    /\ ret = Found(1)

(***************************************************************************)
(* Claims about decomposed_parts                                           *)
(***************************************************************************)

\* the components of x's one-level decomposition that are no IDC symbol
ComponentsOfChar(x) ==
    { k \in DirectComponents(x) : ~(Len(k) = 1 /\ k[1] \in IDCSet) }

\* what is reachable from the characters of S through at most n successive
\* one-level decompositions
RECURSIVE ReachWithin(_, _)
ReachWithin(S, n) ==
    IF n = 0 THEN S
    ELSE ReachWithin(S \cup UNION { ComponentsOfChar(x) : x \in S }, n - 1)

\* C29: the decomposedParts set built by findDerived(t) contains every non-IDC
\* component reachable from t through at most 4 successive one-level
\* decompositions, whatever the order of the components inside the IDS strings
C29_PartsHoldAllWithinBound ==
    call.op = "find_derived_characters" =>
        ReachWithin({call.arg}, MAX_DEPTH) \subseteq out


(***************************************************************************)
(* Claims about the character subset of the two searches                   *)
(***************************************************************************)

\* a call of one of the two searches with a character subset
IsSubsetCall(op) == call.op = op /\ ~call.charset.none

\* a findSisters result of selector -1 that holds the results of both variants
IsWrapped(result) == result # <<>> /\ result[1][1] = VARIANT_1_RESULT

\* the category keys of a findSisters result, under the variant keys where it has them
SkeletonOf(result) ==
    LET Keys(r) == [i \in 1..Len(r) |-> r[i][1]]
    IN  IF IsWrapped(result)
        THEN [n \in 1..Len(result) |-> <<result[n][1], Keys(result[n][2])>>]
        ELSE Keys(result)

\* the groups of a findSisters result as a mapping: each with the keys it is under
SisterGroupsOf(result) ==
    LET Groups(tag, r) ==
            UNION { { <<tag, r[i][1], r[i][2][j][1], r[i][2][j][2]>> :
                        j \in 1..Len(r[i][2]) } : i \in 1..Len(r) }
    IN  IF IsWrapped(result)
        THEN UNION { Groups(result[n][1], result[n][2]) : n \in 1..Len(result) }
        ELSE Groups("", result)

\* the groups of a findDerived result as a mapping
DerivedGroupsOf(result) == { <<"", "", k, result[k]>> : k \in DOMAIN result }

\* groups after removing every character not in S and dropping the groups left empty
RestrictedTo(groups, S) ==
    LET InS(x) == x \in S
    IN  { g \in { <<h[1], h[2], h[3], SelectSeq(h[4], InS)>> : h \in groups } : g[4] # <<>> }

\* the characters the groups list
MembersOf(groups) == UNION { ToSet(g[4]) : g \in groups }

\* the result of the same findSisters call without a subset
SistersOfAll == find_sister_characters(call.arg, NoCharset, call.variant_index)

\* the result of the same findDerived call without a subset
DerivedOfAll == find_derived_characters(call.arg, NoCharset)

SistersCommute ==
    /\ SkeletonOf(ret) = SkeletonOf(SistersOfAll)
    /\ SisterGroupsOf(ret) = RestrictedTo(SisterGroupsOf(SistersOfAll), call.charset.chars)
    /\ MembersOf(SisterGroupsOf(ret)) \subseteq call.charset.chars

DerivedCommute ==
    /\ DerivedGroupsOf(ret) = RestrictedTo(DerivedGroupsOf(DerivedOfAll), call.charset.chars)
    /\ MembersOf(DerivedGroupsOf(ret)) \subseteq call.charset.chars

\* C30 as stated: for every subset S, findSisters(c, selector, S) and findDerived(c, S)
\* equal the results of the same calls without a subset after removing every character
\* not in S from every group and dropping the groups left empty, and every character
\* they list is in S
C30_SubsetCommutes ==
    /\ IsSubsetCall("find_sister_characters") => SistersCommute
    /\ IsSubsetCall("find_derived_characters") => DerivedCommute

\* C30: for every subset S, findDerived(c, S), and findSisters(c, selector, S) where
\* the call without a subset does not return the atomic singleton, equal the results
\* of the same calls without a subset after removing every character not in S from
\* every group and dropping the groups left empty, and every character they list is
\* in S; where the call without a subset returns the atomic singleton of c, the call
\* with S returns the same singleton, whether c is in S or not
C30_SubsetCommutesButAtomic ==
    /\ IsSubsetCall("find_sister_characters") =>
           IF SistersOfAll = IndependentResult(call.arg)
           THEN ret = IndependentResult(call.arg)
           ELSE SistersCommute
    /\ IsSubsetCall("find_derived_characters") => DerivedCommute

\* a subset has removed a character from the groups of a findSisters result that
\* still lists another
C30_Witness ==
    /\ IsSubsetCall("find_sister_characters")
    /\ SistersOfAll # IndependentResult(call.arg)
    /\ SisterGroupsOf(ret) # {}
    /\ SisterGroupsOf(ret) # SisterGroupsOf(SistersOfAll)

====
